---- MODULE Spec2Model ----
(***************************************************************************)
(* The time clock of src/Code.js: the 'logs' sheet and the synced raw-log  *)
(* sheet, the two session reconstructors (getReportData and                *)
(* calculateReportFromSyncedLogs), the checkpoint scan                     *)
(* (getLastReportedTimestamp), the duration formatter (formatMsToDuration) *)
(* and the daily aggregation of generateHtmlReportContent.                 *)
(*                                                                         *)
(* JavaScript values are modelled as follows.                              *)
(*   - a string is a sequence of one-character strings, so that            *)
(*     formatting, split(':'), parseInt and sort() are computed and not    *)
(*     assumed; a fixed message is a sequence holding the message whole;   *)
(*   - a sheet cell holding a Date is [date |-> ms since the epoch], any   *)
(*     other cell value is [text |-> ...], and null is [null |-> TRUE];    *)
(*   - arrays are sequences, so JavaScript index i is index i + 1 here.    *)
(* Utilities.formatDate is computed in UTC for instants of January 1970.   *)
(***************************************************************************)
EXTENDS Integers, Sequences, FiniteSets, TLC

VARIABLES
    logSheet,   \* TRUE when the sheet named 'logs' exists
    logs,       \* the rows of 'logs' below its header row, in storage order
    syncSheet,  \* TRUE when the sheet 'Time Logs Report (Raw Sync)' exists
    synced,     \* the rows of the synced sheet below its first row
    syncTop,    \* what the first row of the synced sheet holds
    isClockedIn,    \* the script property CLOCK_IN_KEY, as a boolean
    isUserOnBreak,  \* the script property ON_BREAK_KEY, as a boolean
    clock,      \* the instant of the latest row stamped with new Date()
    mails,      \* the number of emails handed to MailApp.sendEmail
    arg,        \* the argument of the function a specification applies
    ret         \* what the last call returned (and the locals it ended with)

vars == <<logSheet, logs, syncSheet, syncTop, synced, isClockedIn, isUserOnBreak,
          clock, mails, arg, ret>>
sheets == <<logSheet, logs, syncSheet, syncTop, synced>>
props == <<isClockedIn, isUserOnBreak>>

----------------------------------------------------------------------------
(* Bounds of the model.                                                    *)

MaxLen == 3          \* rows of a sheet whose timestamps are in storage order
MaxAnyLen == 2       \* rows of a 'logs' sheet whose timestamps are in any order
MaxBreaks == 2       \* break pairs of a well-formed IN .. OUT sequence
MaxT == 2            \* instants are 0 .. MaxT ticks
Tick == 1500         \* milliseconds between two instants of the model
MaxSyncLen == 4      \* rows of a synced sheet whose timestamps are in storage order
MaxSec == 59         \* seconds sampled for the formatter
MaxSessions == 3     \* sessions handed to generateHtmlReportContent
MaxDay == 2          \* days (after 1970-01-01) a session date is drawn from
MaxPayload == 2      \* entries of a payload handed to writeRawLogsFromJson
MaxRows == 5         \* rows the workflow operations append to 'logs'
MaxClock == 1        \* the workflow runs at instants 0 .. MaxClock ticks

----------------------------------------------------------------------------
(* Values.                                                                 *)

Null == [null |-> TRUE]
DateOf(ms) == [date |-> ms]
NonDate == [text |-> "CORRUPT_TIMESTAMP"]
IsDate(v) == "date" \in DOMAIN v
IsNull(v) == "null" \in DOMAIN v
getTime(v) == v.date

Row(ts, action) == [ts |-> ts, action |-> action]
Header == [ts |-> [text |-> "Timestamp"], action |-> "Action"]

Instants == {k * Tick : k \in 0..MaxT}

----------------------------------------------------------------------------
(* Strings: String(n), padStart(2, '0'), split(':'), parseInt(s, 10).      *)

DigitChar(d) == <<"0", "1", "2", "3", "4", "5", "6", "7", "8", "9">>[d + 1]
DigitValue(c) == CHOOSE d \in 0..9 : DigitChar(d) = c
IsDigit(c) == \E d \in 0..9 : DigitChar(d) = c

RECURSIVE NatString(_)
NatString(n) == IF n < 10 THEN <<DigitChar(n)>>
                ELSE Append(NatString(n \div 10), DigitChar(n % 10))

\* String(n) of an integer n
String(n) == IF n < 0 THEN <<"-">> \o NatString(-n) ELSE NatString(n)

\* s.padStart(2, '0')
padStart2(s) == IF Len(s) < 2 THEN <<"0">> \o s ELSE s

\* JavaScript's a % b for b > 0: the sign of the dividend
JsRem(a, b) == IF a >= 0 THEN a % b ELSE -((-a) % b)

RECURSIVE split(_, _)
\* s.split(sep): the pieces of s between the occurrences of sep
split(s, sep) ==
    IF \A i \in 1..Len(s) : s[i] # sep THEN <<s>>
    ELSE LET i == CHOOSE k \in 1..Len(s) :
                      s[k] = sep /\ \A j \in 1..(k - 1) : s[j] # sep
         IN  <<SubSeq(s, 1, i - 1)>> \o split(SubSeq(s, i + 1, Len(s)), sep)

RECURSIVE ParseNat(_)
ParseNat(s) == IF s = <<>> THEN 0
               ELSE 10 * ParseNat(SubSeq(s, 1, Len(s) - 1)) + DigitValue(s[Len(s)])

\* parseInt(s, 10) of an optionally signed run of digits
parseInt(s) == IF Len(s) > 0 /\ s[1] = "-" THEN -ParseNat(Tail(s)) ELSE ParseNat(s)

----------------------------------------------------------------------------
(* formatMsToDuration: milliseconds -> HH:MM:SS.                            *)

\* formatMsToDuration with the seconds rounded to the nearest, not floored
formatMsToDuration_Rounded(totalMilliseconds) ==
    LET totalSeconds == (totalMilliseconds + 500) \div 1000
        hours == totalSeconds \div 3600
        minutes == JsRem(totalSeconds, 3600) \div 60
        seconds == JsRem(totalSeconds, 60)
    IN  padStart2(String(hours)) \o <<":">> \o padStart2(String(minutes))
            \o <<":">> \o padStart2(String(seconds))

formatMsToDuration(totalMilliseconds) ==
    LET totalSeconds == totalMilliseconds \div 1000
        hours == totalSeconds \div 3600
        minutes == JsRem(totalSeconds, 3600) \div 60
        seconds == JsRem(totalSeconds, 60)
    IN  padStart2(String(hours)) \o <<":">> \o padStart2(String(minutes))
            \o <<":">> \o padStart2(String(seconds))

\* the parse of a duration string inside generateHtmlReportContent
durationStringToMs(durationString) ==
    LET parts == split(durationString, ":")
    IN  (parseInt(parts[1]) * 3600 + parseInt(parts[2]) * 60 + parseInt(parts[3])) * 1000

----------------------------------------------------------------------------
(* Utilities.formatDate(date, tz, pattern) for the three patterns used.    *)

DayMs == 24 * 3600 * 1000

\* 'yyyy-MM-dd'
formatDateYMD(d) ==
    <<"1", "9", "7", "0", "-", "0", "1", "-">> \o padStart2(String(getTime(d) \div DayMs + 1))

\* 'MMM dd, yyyy'
formatDateMDY(d) ==
    <<"J", "a", "n", " ">> \o padStart2(String(getTime(d) \div DayMs + 1))
        \o <<",", " ", "1", "9", "7", "0">>

\* 'HH:mm:ss'
formatDateHMS(d) ==
    LET s == (getTime(d) % DayMs) \div 1000
    IN  padStart2(String(s \div 3600)) \o <<":">> \o padStart2(String((s % 3600) \div 60))
            \o <<":">> \o padStart2(String(s % 60))

----------------------------------------------------------------------------
(* Reading a sheet: sheet.getDataRange().getValues(), header row first.    *)

getValues(rows) == <<Header>> \o rows

\* data[i] and data.slice(start) with JavaScript's indices from 0
At(data, i) == data[i + 1]
slice(data, start) == SubSeq(data, start + 1, Len(data))

----------------------------------------------------------------------------
(* getReportData: the sessions since the last REPORTED row.                *)

\* the locals of getReportData before its loop
ReportLocals ==
    [sessions |-> <<>>, sessionStartTime |-> Null, sessionStartLog |-> Null,
     totalWorkDuration |-> 0, grandTotalDurationMs |-> 0]

\* onIN that keeps a session that is already open
onIN_KeepsFirst(st, timestamp) ==
    IF IsNull(st.sessionStartLog)
    THEN [st EXCEPT !.sessionStartTime = timestamp, !.sessionStartLog = timestamp,
                    !.totalWorkDuration = 0]
    ELSE st

\* action === 'IN'
onIN(st, timestamp) ==
    [st EXCEPT !.sessionStartTime = timestamp, !.sessionStartLog = timestamp,
               !.totalWorkDuration = 0]

\* onBreakOut that adds the segment worked and lets the segment run on
onBreakOut_KeepsRunning(st, timestamp) ==
    IF ~IsNull(st.sessionStartTime) /\ ~IsNull(st.sessionStartLog)
    THEN [st EXCEPT !.totalWorkDuration =
                        @ + (getTime(timestamp) - getTime(st.sessionStartTime))]
    ELSE st

\* onBreakOut that pauses the session without adding the segment worked
onBreakOut_DropsSegment(st, timestamp) ==
    IF ~IsNull(st.sessionStartTime) /\ ~IsNull(st.sessionStartLog)
    THEN [st EXCEPT !.sessionStartTime = Null]
    ELSE st

\* action === 'BREAK-OUT' || action === 'BREAK'
onBreakOut(st, timestamp) ==
    IF ~IsNull(st.sessionStartTime) /\ ~IsNull(st.sessionStartLog)
    THEN [st EXCEPT !.totalWorkDuration =
                        @ + (getTime(timestamp) - getTime(st.sessionStartTime)),
                    !.sessionStartTime = Null]
    ELSE st

\* action === 'BREAK-IN'
onBreakIn(st, timestamp) ==
    IF ~IsNull(st.sessionStartLog) THEN [st EXCEPT !.sessionStartTime = timestamp] ELSE st

\* action === 'OUT'
onOUT(st, timestamp) ==
    LET open == ~IsNull(st.sessionStartTime) /\ ~IsNull(st.sessionStartLog)
        totalWorkDuration ==
            st.totalWorkDuration + (getTime(timestamp) - getTime(st.sessionStartTime))
        session == <<formatDateYMD(st.sessionStartLog), formatDateHMS(st.sessionStartLog),
                     formatDateHMS(timestamp), formatMsToDuration(totalWorkDuration)>>
    IN  [sessions |-> IF open THEN Append(st.sessions, session) ELSE st.sessions,
         grandTotalDurationMs |-> IF open THEN st.grandTotalDurationMs + totalWorkDuration
                                  ELSE st.grandTotalDurationMs,
         sessionStartTime |-> Null, sessionStartLog |-> Null, totalWorkDuration |-> 0]

\* reportStep that closes the open session on a row without a Date
reportStep_ResetsOnInvalid(st, row) ==
    IF ~IsDate(row.ts)
    THEN [st EXCEPT !.sessionStartTime = Null, !.sessionStartLog = Null,
                    !.totalWorkDuration = 0]
    ELSE IF row.action = "IN" THEN onIN(st, row.ts)
    ELSE IF row.action = "BREAK-OUT" \/ row.action = "BREAK" THEN onBreakOut(st, row.ts)
    ELSE IF row.action = "BREAK-IN" THEN onBreakIn(st, row.ts)
    ELSE IF row.action = "OUT" THEN onOUT(st, row.ts)
    ELSE st

\* reportStep that knows BREAK-OUT only, not the legacy BREAK
reportStep_NoLegacyBreak(st, row) ==
    IF ~IsDate(row.ts) THEN st
    ELSE IF row.action = "IN" THEN onIN(st, row.ts)
    ELSE IF row.action = "BREAK-OUT" THEN onBreakOut(st, row.ts)
    ELSE IF row.action = "BREAK-IN" THEN onBreakIn(st, row.ts)
    ELSE IF row.action = "OUT" THEN onOUT(st, row.ts)
    ELSE st

\* the body of the loop of getReportData on one row
reportStep(st, row) ==
    IF ~IsDate(row.ts) THEN st
    ELSE IF row.action = "IN" THEN onIN(st, row.ts)
    ELSE IF row.action = "BREAK-OUT" \/ row.action = "BREAK" THEN onBreakOut(st, row.ts)
    ELSE IF row.action = "BREAK-IN" THEN onBreakIn(st, row.ts)
    ELSE IF row.action = "OUT" THEN onOUT(st, row.ts)
    ELSE st

RECURSIVE reportLoopFrom(_, _)
\* the locals after the loop body has run on every row in order
reportLoopFrom(st, rows) ==
    IF rows = <<>> THEN st ELSE reportLoopFrom(reportStep(st, Head(rows)), Tail(rows))

\* the loop of getReportData on the rows it processes
reportLoop(logsToProcess) == reportLoopFrom(ReportLocals, logsToProcess)

\* startIndexOf that finds no REPORTED row: every row is processed
startIndexOf_FromTop(data) == 1

\* the index after the last REPORTED row, 1 when there is none
startIndexOf(data) ==
    LET reported == {i \in 1..(Len(data) - 1) : At(data, i).action = "REPORTED"}
    IN  IF reported = {} THEN 1
        ELSE (CHOOSE i \in reported : \A j \in reported : j <= i) + 1

logsToProcessOf(data) == slice(data, startIndexOf(data))

ErrNoLogsSheet == <<"Error: 'logs' sheet not found.">>
NoLogData == <<"No log data available.">>

getReportData(sheet, rows) ==
    IF ~sheet THEN [sessions |-> << <<ErrNoLogsSheet>> >>, totalMs |-> 0]
    ELSE LET data == getValues(rows)
         IN  IF Len(data) <= 1 THEN [sessions |-> << <<NoLogData>> >>, totalMs |-> 0]
             ELSE IF Len(logsToProcessOf(data)) = 0 THEN [sessions |-> <<>>, totalMs |-> 0]
             ELSE LET st == reportLoop(logsToProcessOf(data))
                  IN  [sessions |-> st.sessions, totalMs |-> st.grandTotalDurationMs]

----------------------------------------------------------------------------
(* calculateReportFromSyncedLogs: the sessions of the synced sheet.        *)

SyncLocals ==
    [sessions |-> <<>>, sessionStartTime |-> Null, sessionStartLog |-> Null,
     grandTotalDurationMs |-> 0]

\* onCLOCK_IN that keeps the session already open
onCLOCK_IN_KeepsFirst(st, timestamp) ==
    IF IsNull(st.sessionStartLog)
    THEN [st EXCEPT !.sessionStartTime = timestamp, !.sessionStartLog = timestamp]
    ELSE st

\* action === 'CLOCK_IN'
onCLOCK_IN(st, timestamp) ==
    [st EXCEPT !.sessionStartTime = timestamp, !.sessionStartLog = timestamp]

\* action === 'CLOCK_OUT'
onCLOCK_OUT(st, timestamp) ==
    LET open == ~IsNull(st.sessionStartTime) /\ ~IsNull(st.sessionStartLog)
        totalWorkDuration == getTime(timestamp) - getTime(st.sessionStartTime)
        session == <<formatDateMDY(st.sessionStartLog), formatDateHMS(st.sessionStartLog),
                     formatDateHMS(timestamp), formatMsToDuration(totalWorkDuration)>>
    IN  [sessions |-> IF open THEN Append(st.sessions, session) ELSE st.sessions,
         grandTotalDurationMs |-> IF open THEN st.grandTotalDurationMs + totalWorkDuration
                                  ELSE st.grandTotalDurationMs,
         sessionStartTime |-> Null, sessionStartLog |-> Null]

\* syncStep that also takes the local IN and OUT for an opening and a closing
syncStep_LocalVocabulary(st, row) ==
    IF ~IsDate(row.ts) THEN st
    ELSE IF row.action = "CLOCK_IN" \/ row.action = "IN" THEN onCLOCK_IN(st, row.ts)
    ELSE IF row.action = "CLOCK_OUT" \/ row.action = "OUT" THEN onCLOCK_OUT(st, row.ts)
    ELSE st

\* the body of the loop of calculateReportFromSyncedLogs on one row
syncStep(st, row) ==
    IF ~IsDate(row.ts) THEN st
    ELSE IF row.action = "CLOCK_IN" THEN onCLOCK_IN(st, row.ts)
    ELSE IF row.action = "CLOCK_OUT" THEN onCLOCK_OUT(st, row.ts)
    ELSE st

\* syncLogsToProcess that keeps the rows inside the window passed
syncLogsToProcess_Windowed(dummy, data) ==
    SelectSeq(slice(data, 1),
              LAMBDA r : \/ IsNull(dummy) \/ ~IsDate(r.ts)
                         \/ /\ IsNull(dummy.start) \/ getTime(dummy.start) <= getTime(r.ts)
                            /\ IsNull(dummy.end) \/ getTime(r.ts) <= getTime(dummy.end))

\* the rows calculateReportFromSyncedLogs(dummy) processes
syncLogsToProcess(dummy, data) == slice(data, 1)

RECURSIVE syncLoopFrom(_, _)
\* the locals after the loop body has run on every row in order
syncLoopFrom(st, rows) ==
    IF rows = <<>> THEN st ELSE syncLoopFrom(syncStep(st, Head(rows)), Tail(rows))

\* the locals calculateReportFromSyncedLogs(dummy) ends its loop with
syncLoop(dummy, data) == syncLoopFrom(SyncLocals, syncLogsToProcess(dummy, data))

ErrNoSyncSheet == <<"Error: Sync sheet not found. Run the 'Sync Full Log' button first.">>
NoSyncData == <<"No data available in synced sheet.">>
NoSyncSessions == <<"No completed IN/OUT sessions found in synced data.">>
Empty == <<>>
reportHeaders == << <<Empty, <<"Date (Session)">>, <<"Time IN">>, <<"Time OUT">>,
                      <<"Total Duration">>>> >>

\* calculateReportFromSyncedLogs with the grand total row of lines 919-922
calculateReportFromSyncedLogs_WithTotalRow(dummy, sheet, rows) ==
    IF ~sheet THEN << <<ErrNoSyncSheet>> >>
    ELSE LET data == getValues(rows)
         IN  IF Len(data) <= 1 THEN << <<NoSyncData>> >>
             ELSE LET st == syncLoop(dummy, data)
                  IN  IF Len(st.sessions) = 0
                      THEN reportHeaders \o << <<Empty, NoSyncSessions, Empty, Empty, Empty>> >>
                      ELSE reportHeaders
                             \o [i \in 1..Len(st.sessions) |-> <<Empty>> \o st.sessions[i]]
                             \o << <<Empty, <<"GRAND TOTAL">>, Empty, Empty,
                                     formatMsToDuration(st.grandTotalDurationMs)>> >>

calculateReportFromSyncedLogs(dummy, sheet, rows) ==
    IF ~sheet THEN << <<ErrNoSyncSheet>> >>
    ELSE LET data == getValues(rows)
         IN  IF Len(data) <= 1 THEN << <<NoSyncData>> >>
             ELSE LET sessions == syncLoop(dummy, data).sessions
                  IN  IF Len(sessions) = 0
                      THEN reportHeaders \o << <<Empty, NoSyncSessions, Empty, Empty, Empty>> >>
                      ELSE reportHeaders \o [i \in 1..Len(sessions) |-> <<Empty>> \o sessions[i]]

----------------------------------------------------------------------------
(* getLastReportedTimestamp: the checkpoint of the 'logs' sheet.           *)

\* getLastReportedTimestamp scanning forward: the first match wins
getLastReportedTimestamp_FirstMatch(rows) ==
    LET data == getValues(rows)
        reported == {i \in 1..(Len(data) - 1) :
                        At(data, i).action = "REPORTED" /\ IsDate(At(data, i).ts)}
    IN  IF reported # {}
        THEN At(data, CHOOSE i \in reported : \A j \in reported : i <= j).ts
        ELSE IF Len(data) > 1 /\ IsDate(At(data, 1).ts) THEN At(data, 1).ts
        ELSE DateOf(0)

getLastReportedTimestamp(rows) ==
    LET data == getValues(rows)
        reported == {i \in 1..(Len(data) - 1) :
                        At(data, i).action = "REPORTED" /\ IsDate(At(data, i).ts)}
    IN  IF reported # {}
        THEN At(data, CHOOSE i \in reported : \A j \in reported : j <= i).ts
        ELSE IF Len(data) > 1 /\ IsDate(At(data, 1).ts) THEN At(data, 1).ts
        ELSE DateOf(0)

----------------------------------------------------------------------------
(* generateHtmlReportContent: one row per day, then the grand total.       *)

\* the UTF-16 code unit of a character, the order of Array.prototype.sort()
CodeUnit(c) ==
    CASE c = " " -> 32 [] c = "," -> 44 [] c = "-" -> 45 [] c = ":" -> 58
      [] c = "J" -> 74 [] c = "a" -> 97 [] c = "n" -> 110
      [] OTHER -> 48 + DigitValue(c)

\* a < b in the order of sort(): by code units, a proper prefix first
StringLess(a, b) ==
    \E k \in 1..(Len(b)) :
        /\ \A j \in 1..(k - 1) : j <= Len(a) /\ a[j] = b[j]
        /\ \/ k = Len(a) + 1
           \/ k <= Len(a) /\ CodeUnit(a[k]) < CodeUnit(b[k])

RECURSIVE sort_Descending(_)
\* sort with its comparison reversed
sort_Descending(keys) ==
    IF keys = {} THEN <<>>
    ELSE LET first == CHOOSE k \in keys : \A other \in keys \ {k} : StringLess(other, k)
         IN  <<first>> \o sort_Descending(keys \ {first})

RECURSIVE sort(_)
\* Object.keys(obj).sort() of the set of keys
sort(keys) ==
    IF keys = {} THEN <<>>
    ELSE LET first == CHOOSE k \in keys : \A other \in keys \ {k} : StringLess(k, other)
         IN  <<first>> \o sort(keys \ {first})

\* dailyTotals[date] = (dailyTotals[date] || 0) + ms, for one session
addToDailyTotals(dailyTotals, session) ==
    LET date == session[1]
        ms == durationStringToMs(session[4])
        before == IF date \in DOMAIN dailyTotals THEN dailyTotals[date] ELSE 0
    IN  [k \in DOMAIN dailyTotals \cup {date} |->
            IF k = date THEN before + ms ELSE dailyTotals[k]]

RECURSIVE dailyTotalsFrom(_, _)
\* sessions.forEach from a given dailyTotals object
dailyTotalsFrom(dailyTotals, sessions) ==
    IF sessions = <<>> THEN dailyTotals
    ELSE dailyTotalsFrom(addToDailyTotals(dailyTotals, Head(sessions)), Tail(sessions))

\* the dailyTotals object after sessions.forEach
dailyTotalsOf(sessions) == dailyTotalsFrom([k \in {} |-> 0], sessions)

\* the rendered rows: <<date, daily duration>> for each date in sorted order
dailyRows(dailyTotals) ==
    LET sortedDates == sort(DOMAIN dailyTotals)
    IN  [i \in 1..Len(sortedDates) |->
            <<sortedDates[i], formatMsToDuration(dailyTotals[sortedDates[i]])>>]

\* the result is the fallback message, the table, or a TypeError thrown by
\* session[3].split(':') on a row that has no fourth element
generateHtmlReportContent(reportData) ==
    LET sessions == reportData.sessions
    IN  IF Len(sessions) = 0 THEN [kind |-> "message"]
        ELSE IF \E i \in 1..Len(sessions) : Len(sessions[i]) < 4 THEN [kind |-> "TypeError"]
        ELSE [kind |-> "table",
              rows |-> dailyRows(dailyTotalsOf(sessions)),
              grandTotal |-> formatMsToDuration(reportData.totalMs)]

----------------------------------------------------------------------------
(* previewReportEmail: the report pipeline without any write.              *)

\* getReportData, getLastReportedTimestamp (which dereferences the sheet),
\* then generateHtmlReportContent; the dialog it shows is not modelled
previewReportEmail(sheet, rows) ==
    LET report == getReportData(sheet, rows)
        html == generateHtmlReportContent(report)
    IN  IF ~sheet THEN [op |-> "previewReportEmail", threw |-> "TypeError"]
        ELSE IF html.kind = "TypeError"
        THEN [op |-> "previewReportEmail", threw |-> "TypeError", report |-> report]
        ELSE [op |-> "previewReportEmail", report |-> report,
              lastReportedTime |-> getLastReportedTimestamp(rows), html |-> html]

----------------------------------------------------------------------------
(* The inputs the specifications draw from.                                *)

LocalActions == {"IN", "OUT", "BREAK-OUT", "BREAK-IN", "BREAK", "REPORTED"}
SyncActions == {"CLOCK_IN", "CLOCK_OUT", "BREAK-OUT"}
CheckpointActions == {"IN", "OUT", "REPORTED"}

\* rows is a sequence of at most n rows whose action is drawn from actions;
\* row i holds the Date of tick i or a value that is no Date
OrderedLog(rows, actions, n) ==
    \E m \in 0..n : \E f \in [1..m -> actions \X BOOLEAN] :
        rows = [i \in 1..m |-> Row(IF f[i][2] THEN DateOf(i * Tick) ELSE NonDate, f[i][1])]

\* rows is a sequence of at most n rows, each with any action of actions and
\* any instant, or no Date, as its timestamp
AnyLog(rows, actions, n) ==
    \E m \in 0..n :
        rows \in [1..m -> {Row(ts, a) : ts \in {DateOf(t) : t \in Instants} \cup {NonDate},
                                        a \in actions}]

\* the action of row i of IN, (BREAK-OUT, BREAK-IN) * k, OUT
PatternAction(i, k) ==
    IF i = 1 THEN "IN" ELSE IF i = 2 * k + 2 THEN "OUT"
    ELSE IF i % 2 = 0 THEN "BREAK-OUT" ELSE "BREAK-IN"

\* rows is IN, k <= n pairs of BREAK-OUT and BREAK-IN, OUT, each at any instant
PatternLog(rows, n) ==
    \E k \in 0..n : \E f \in [1..(2 * k + 2) -> Instants] :
        rows = [i \in 1..(2 * k + 2) |-> Row(DateOf(f[i]), PatternAction(i, k))]

\* the window a caller may pass to calculateReportFromSyncedLogs: absent
\* bounds are Null
Windows == {[start |-> a, end |-> b] : a, b \in {DateOf(t) : t \in Instants} \cup {Null}}

MsSamples ==
    {h * 3600000 + m * 60000 + sec * 1000 + f :
        h \in {0, 1, 99, 100}, m \in {0, 1, 59}, sec \in 0..MaxSec, f \in {0, 1, 500, 999}}

SessionSamples ==
    {<<formatDateYMD(DateOf(d * DayMs)), formatDateHMS(DateOf(0)),
       formatDateHMS(DateOf(ms)), formatMsToDuration(ms)>> :
        d \in 0..MaxDay, ms \in {0, 1000, 3599000}}

\* reportData holds at most n sessions and a total
ReportDataSample(reportData, n) ==
    \E m \in 1..n : \E ss \in [1..m -> SessionSamples] : \E t \in {0, 7200000} :
        reportData = [sessions |-> ss, totalMs |-> t]

NoCall == [op |-> "none"]

\* the first row of the synced sheet: no sheet, a sheet just inserted, the
\* headers written above the rows, or the message written to A1
NoSheet == "none"
Blank == "blank"
SyncHeaders == "Timestamp, Action, Status"
NoLogEntries == "No Log Entries Found in Firestore."

\* the flags as initializeProperties sets them, no email sent, and the first
\* row of the synced sheet that goes with the rows below it
AtRest ==
    /\ isClockedIn = FALSE /\ isUserOnBreak = FALSE
    /\ clock = 0 /\ mails = 0
    /\ syncTop = IF ~syncSheet THEN NoSheet ELSE IF synced = <<>> THEN Blank ELSE SyncHeaders

----------------------------------------------------------------------------
(* Specification SpecReport: any 'logs' sheet or any synced sheet, read by *)
(* the report functions.                                                   *)

InitReport ==
    /\ \/ /\ logSheet = TRUE
          /\ \/ OrderedLog(logs, LocalActions, MaxLen)
             \/ AnyLog(logs, LocalActions, MaxAnyLen)
             \/ PatternLog(logs, MaxBreaks)
          /\ syncSheet = FALSE /\ synced = <<>>
       \/ /\ logSheet = FALSE /\ logs = <<>>
          /\ syncSheet = TRUE
          /\ \/ OrderedLog(synced, SyncActions, MaxSyncLen)
             \/ AnyLog(synced, SyncActions, MaxLen)
    /\ AtRest
    /\ arg = Null
    /\ ret = NoCall

CallGetReportData ==
    /\ ret' = [op |-> "getReportData", report |-> getReportData(logSheet, logs)]
    /\ UNCHANGED <<sheets, props, clock, mails, arg>>

\* previewReportEmail that clocks out, as sendReportEmail does
CallPreviewReportEmail_ClocksOut ==
    /\ ret' = previewReportEmail(logSheet, logs)
    /\ logs' = Append(logs, Row(DateOf(clock), "OUT"))
    /\ isClockedIn' = FALSE /\ isUserOnBreak' = FALSE
    /\ UNCHANGED <<logSheet, syncSheet, syncTop, synced, clock, mails, arg>>

CallPreviewReportEmail ==
    /\ ret' = previewReportEmail(logSheet, logs)
    /\ UNCHANGED <<sheets, props, clock, mails, arg>>

CallCalculateReportFromSyncedLogs(dummy) ==
    /\ arg' = dummy
    /\ ret' = [op |-> "calculateReportFromSyncedLogs",
               value |-> calculateReportFromSyncedLogs(dummy, syncSheet, synced),
               locals |-> IF syncSheet /\ Len(synced) > 0
                          THEN syncLoop(dummy, getValues(synced)) ELSE SyncLocals]
    /\ UNCHANGED <<sheets, props, clock, mails>>

NextReport ==
    \/ CallGetReportData
    \/ CallPreviewReportEmail
    \/ CallCalculateReportFromSyncedLogs(Null)

SpecReport == InitReport /\ [][NextReport]_vars

----------------------------------------------------------------------------
(* Specification SpecCheckpoint: any 'logs' sheet, scanned for its         *)
(* checkpoint.                                                             *)

InitCheckpoint ==
    /\ logSheet = TRUE /\ AnyLog(logs, CheckpointActions, MaxLen)
    /\ syncSheet = FALSE /\ synced = <<>>
    /\ AtRest
    /\ arg = Null
    /\ ret = NoCall

CallGetLastReportedTimestamp ==
    /\ ret' = [op |-> "getLastReportedTimestamp", value |-> getLastReportedTimestamp(logs)]
    /\ UNCHANGED <<sheets, props, clock, mails, arg>>

NextCheckpoint == CallGetLastReportedTimestamp

SpecCheckpoint == InitCheckpoint /\ [][NextCheckpoint]_vars

----------------------------------------------------------------------------
(* Specification SpecWindow: any synced sheet, read by                     *)
(* calculateReportFromSyncedLogs with any window as its argument.          *)

InitWindow ==
    /\ logSheet = TRUE /\ logs = <<>>
    /\ \/ syncSheet = TRUE /\ OrderedLog(synced, SyncActions, MaxLen)
       \/ syncSheet = FALSE /\ synced = <<>>
    /\ AtRest
    /\ arg = Null
    /\ ret = NoCall

\* the window of the last call with its bounds exchanged
Swapped(window) == [start |-> window.end, end |-> window.start]

\* a second call, for the window of the first with its bounds exchanged; the
\* result of the first call is kept beside the result of the second
CallCalculateReportFromSyncedLogsSwapped ==
    /\ ret.op = "calculateReportFromSyncedLogs" /\ ~IsNull(arg)
    /\ arg' = Swapped(arg)
    /\ ret' = [op |-> "calculateReportFromSyncedLogs",
               value |-> calculateReportFromSyncedLogs(Swapped(arg), syncSheet, synced),
               locals |-> IF syncSheet /\ Len(synced) > 0
                          THEN syncLoop(Swapped(arg), getValues(synced)) ELSE SyncLocals,
               swappedFrom |-> ret.value]
    /\ UNCHANGED <<sheets, props, clock, mails>>

NextWindow ==
    \/ \E dummy \in Windows \cup {Null} : CallCalculateReportFromSyncedLogs(dummy)
    \/ CallCalculateReportFromSyncedLogsSwapped

SpecWindow == InitWindow /\ [][NextWindow]_vars

----------------------------------------------------------------------------
(* Specification SpecInert: a synced sheet whose rows hold any action a    *)
(* client may have written, read by calculateReportFromSyncedLogs.         *)

AnySyncActions ==
    {"CLOCK_IN", "CLOCK_OUT", "BREAK-OUT", "BREAK-IN", "REPORTED", "ACTION_MISSING",
     "IN", "OUT"}

\* rows is a sequence of at most n rows whose action is drawn from actions;
\* row i holds the Date of tick i
DatedLog(rows, actions, n) ==
    \E m \in 0..n : \E f \in [1..m -> actions] :
        rows = [i \in 1..m |-> Row(DateOf(i * Tick), f[i])]

InitInert ==
    /\ logSheet = TRUE /\ logs = <<>>
    /\ syncSheet = TRUE /\ DatedLog(synced, AnySyncActions, MaxLen)
    /\ AtRest
    /\ arg = Null
    /\ ret = NoCall

NextInert == CallCalculateReportFromSyncedLogs(Null)

SpecInert == InitInert /\ [][NextInert]_vars

----------------------------------------------------------------------------
(* Specification SpecFormat: a duration formatted, then parsed back as     *)
(* generateHtmlReportContent parses it.                                    *)

InitFormat ==
    /\ logSheet = TRUE /\ logs = <<>>
    /\ syncSheet = FALSE /\ synced = <<>>
    /\ AtRest
    /\ arg \in MsSamples
    /\ ret = NoCall

CallFormatMsToDuration ==
    /\ ret.op = "none"
    /\ ret' = [op |-> "formatMsToDuration", value |-> formatMsToDuration(arg)]
    /\ UNCHANGED <<sheets, props, clock, mails, arg>>

ParseDurationString ==
    /\ ret.op = "formatMsToDuration"
    /\ ret' = [op |-> "durationStringToMs", ms |-> durationStringToMs(ret.value)]
    /\ UNCHANGED <<sheets, props, clock, mails, arg>>

NextFormat == CallFormatMsToDuration \/ ParseDurationString

SpecFormat == InitFormat /\ [][NextFormat]_vars

----------------------------------------------------------------------------
(* Specification SpecFormatNegative: SpecFormat for durations below zero.  *)

NegativeMsSamples ==
    {-(h * 3600000 + sec * 1000 + f) : h \in {0, 1}, sec \in 0..MaxSec, f \in {1, 1000}}

InitFormatNegative ==
    /\ logSheet = TRUE /\ logs = <<>>
    /\ syncSheet = FALSE /\ synced = <<>>
    /\ AtRest
    /\ arg \in NegativeMsSamples
    /\ ret = NoCall

SpecFormatNegative == InitFormatNegative /\ [][NextFormat]_vars

----------------------------------------------------------------------------
(* Specification SpecRender: generateHtmlReportContent on any sessions.    *)

InitRender ==
    /\ logSheet = TRUE /\ logs = <<>>
    /\ syncSheet = FALSE /\ synced = <<>>
    /\ AtRest
    /\ ReportDataSample(arg, MaxSessions)
    /\ ret = NoCall

CallGenerateHtmlReportContent ==
    /\ ret' = [op |-> "generateHtmlReportContent", html |-> generateHtmlReportContent(arg)]
    /\ UNCHANGED <<sheets, props, clock, mails, arg>>

NextRender == CallGenerateHtmlReportContent

SpecRender == InitRender /\ [][NextRender]_vars

----------------------------------------------------------------------------
(* writeRawLogsFromJson: the synced sheet rewritten from a JSON payload.   *)
(*                                                                         *)
(* A payload is what JSON.parse makes of the string: a SyntaxError, a      *)
(* value that is no array, or an array of entries. An entry holds the      *)
(* timestamp text (a text new Date() parses to an instant, a text it does  *)
(* not, or the empty text for a missing field) and the action text (empty  *)
(* when missing).                                                          *)

InvalidJson == [json |-> "invalid"]
NotAnArray == [json |-> "null"]
JsonArray(entries) == [json |-> "array", entries |-> entries]

IsoText(ms) == [iso |-> ms]
Unparsable == [text |-> "not a date"]
Missing == [text |-> ""]

\* timestampValueOf that stores the instant 0 for a text that is no date
timestampValueOf_EpochForCorrupt(entry) ==
    IF "iso" \in DOMAIN entry.timestamp THEN DateOf(entry.timestamp.iso)
    ELSE DateOf(0)

\* String(row[0] || 'CORRUPT_TIMESTAMP'), then the Date when new Date() of
\* that text is valid and the text itself otherwise
timestampValueOf(entry) ==
    IF "iso" \in DOMAIN entry.timestamp THEN DateOf(entry.timestamp.iso)
    ELSE IF entry.timestamp = Missing THEN NonDate
    ELSE entry.timestamp

\* String(row[1] || 'ACTION_MISSING')
actionStringOf(entry) == IF entry.action = "" THEN "ACTION_MISSING" ELSE entry.action

\* rawData.map(row => [timestampValue, actionString, statusString])
processedDataOf(entries) ==
    [i \in 1..Len(entries) |-> Row(timestampValueOf(entries[i]), actionStringOf(entries[i]))]

\* the data rows of the synced sheet after writeRawLogsFromJson: unchanged
\* when the payload is no array, none for an empty array (the sheet is
\* cleared and A1 holds a message), one row per entry otherwise
writtenRows(rawDataJsonString, rows) ==
    IF rawDataJsonString = InvalidJson \/ rawDataJsonString = NotAnArray THEN rows
    ELSE IF Len(rawDataJsonString.entries) = 0 THEN <<>>
    ELSE processedDataOf(rawDataJsonString.entries)

\* the sheet is inserted when missing (ret.inserted) before the payload is
\* parsed; a
\* payload that does not parse is logged and nothing more is done; null
\* throws a TypeError at rawData.length; an empty array clears the sheet and
\* writes a message to A1; entries replace the sheet by headers and rows
CallWriteRawLogsFromJson(rawDataJsonString) ==
    /\ arg' = rawDataJsonString
    /\ syncSheet' = TRUE
    /\ IF rawDataJsonString = InvalidJson
       THEN /\ syncTop' = (IF syncSheet THEN syncTop ELSE Blank)
            /\ synced' = writtenRows(rawDataJsonString, synced)
            /\ ret' = [op |-> "writeRawLogsFromJson", inserted |-> ~syncSheet,
                        logged |-> "FATAL ERROR"]
       ELSE IF rawDataJsonString = NotAnArray
       THEN /\ syncTop' = (IF syncSheet THEN syncTop ELSE Blank)
            /\ synced' = writtenRows(rawDataJsonString, synced)
            /\ ret' = [op |-> "writeRawLogsFromJson", inserted |-> ~syncSheet,
                        threw |-> "TypeError"]
       ELSE IF Len(rawDataJsonString.entries) = 0
       THEN /\ syncTop' = NoLogEntries
            /\ synced' = writtenRows(rawDataJsonString, synced)
            /\ ret' = [op |-> "writeRawLogsFromJson", inserted |-> ~syncSheet,
                        logged |-> "none"]
       ELSE /\ syncTop' = SyncHeaders
            /\ synced' = writtenRows(rawDataJsonString, synced)
            /\ ret' = [op |-> "writeRawLogsFromJson", inserted |-> ~syncSheet,
                        logged |-> "Successfully synced"]
    /\ UNCHANGED <<logSheet, logs, props, clock, mails>>

\* the entries a payload may hold
Entries ==
    [timestamp : {IsoText(t) : t \in Instants} \cup {Unparsable, Missing},
     action : {"CLOCK_IN", "CLOCK_OUT", ""}]

----------------------------------------------------------------------------
(* Specification SpecSync: the synced sheet, absent or holding any rows,   *)
(* rewritten by writeRawLogsFromJson and read by                           *)
(* calculateReportFromSyncedLogs.                                          *)

InitSync ==
    /\ logSheet = TRUE /\ logs = <<>>
    /\ \/ syncSheet = TRUE /\ OrderedLog(synced, SyncActions, MaxPayload)
       \/ syncSheet = FALSE /\ synced = <<>>
    /\ AtRest
    /\ arg = Null
    /\ ret = NoCall

NextSync ==
    \/ \E payload \in {InvalidJson, NotAnArray} : CallWriteRawLogsFromJson(payload)
    \/ \E m \in 0..MaxPayload : \E entries \in [1..m -> Entries] :
          CallWriteRawLogsFromJson(JsonArray(entries))
    \/ CallCalculateReportFromSyncedLogs(Null)

SpecSync == InitSync /\ [][NextSync]_vars

----------------------------------------------------------------------------
(* Specification SpecPayload: from a spreadsheet without synced sheet,     *)
(* writeRawLogsFromJson with payloads whose entry i holds the instant of   *)
(* tick i, an unparsable text or no timestamp, and                         *)
(* calculateReportFromSyncedLogs.                                          *)

StampKinds == {"instant", "unparsable", "missing"}

EntryAt(i, kind, action) ==
    [action |-> action,
     timestamp |-> IF kind = "instant" THEN IsoText(i * Tick)
                   ELSE IF kind = "unparsable" THEN Unparsable ELSE Missing]

\* the entries a payload of SpecPayload may hold
PayloadEntries ==
    {EntryAt(i, kind, action) :
        i \in 1..MaxPayload, kind \in StampKinds, action \in {"CLOCK_IN", "CLOCK_OUT", ""}}

InitPayload ==
    /\ logSheet = TRUE /\ logs = <<>>
    /\ syncSheet = FALSE /\ synced = <<>>
    /\ AtRest
    /\ arg = Null
    /\ ret = NoCall

NextPayload ==
    \/ \E m \in 0..MaxPayload :
          \E f \in [1..m -> StampKinds \X {"CLOCK_IN", "CLOCK_OUT", ""}] :
              CallWriteRawLogsFromJson(
                  JsonArray([i \in 1..m |-> EntryAt(i, f[i][1], f[i][2])]))
    \/ CallCalculateReportFromSyncedLogs(Null)

SpecPayload == InitPayload /\ [][NextPayload]_vars

----------------------------------------------------------------------------
(* The workflow: recordTimeLog, toggleBreak, sendReportEmail and           *)
(* markHoursReported append rows to 'logs' and set the two flags. The      *)
(* third column of a row (the status text) is empty but for a REPORTED     *)
(* row, where it holds the start of the period, its end and the total;     *)
(* no function of the program reads it. new Date() returns an instant      *)
(* that is not before the last one it returned.                            *)

\* the instants of the workflow
WorkInstants == {k * Tick : k \in 0..MaxClock}

\* recordTimeLog that leaves the break flag as it is when clocking out
CallRecordTimeLog_KeepsBreak(dateTimeString) ==
    /\ Len(logs) < MaxRows
    /\ arg' = dateTimeString
    /\ logs' = Append(logs, Row(DateOf(dateTimeString.iso),
                                IF ~isClockedIn THEN "IN" ELSE "OUT"))
    /\ isClockedIn' = ~isClockedIn
    /\ ret' = [op |-> "recordTimeLog", action |-> IF ~isClockedIn THEN "IN" ELSE "OUT"]
    /\ UNCHANGED <<logSheet, syncSheet, syncTop, synced, isUserOnBreak, clock, mails>>

\* dateTimeString is a text new Date() parses to an instant, as the date and
\* time field of the sidebar supplies it
CallRecordTimeLog(dateTimeString) ==
    LET newStatus == ~isClockedIn
        action == IF newStatus THEN "IN" ELSE "OUT"
        logTime == DateOf(dateTimeString.iso)
    IN  /\ Len(logs) < MaxRows
        /\ arg' = dateTimeString
        /\ isUserOnBreak' = (IF ~newStatus THEN FALSE ELSE isUserOnBreak)
        /\ logs' = Append(logs, Row(logTime, action))
        /\ isClockedIn' = newStatus
        /\ ret' = [op |-> "recordTimeLog", action |-> action]
        /\ UNCHANGED <<logSheet, syncSheet, syncTop, synced, clock, mails>>

\* [now, 'REPORTED', `${startDate} | ${endDate} | Total Work: ${total}`]
ReportedRow(now, lastReportedTime, totalWorkDurationString) ==
    [ts |-> now, action |-> "REPORTED",
     status |-> [startDate |-> lastReportedTime, endDate |-> now,
                 total |-> totalWorkDurationString]]

\* onOpen: a property that is null is set to its default; a flag that is
\* null reads as false before and after
CallInitializeProperties ==
    /\ ret' = [op |-> "initializeProperties"]
    /\ UNCHANGED <<sheets, props, clock, mails, arg>>

CallToggleBreak ==
    /\ arg' = Null
    /\ IF ~isClockedIn
       THEN /\ ret' = [op |-> "toggleBreak", alert |-> "Cannot Record Break"]
            /\ UNCHANGED <<sheets, props, clock, mails>>
       ELSE /\ Len(logs) < MaxRows
            /\ \E now \in WorkInstants :
                  /\ now >= clock /\ clock' = now
                  /\ LET newBreakStatus == ~isUserOnBreak
                         action == IF newBreakStatus THEN "BREAK-OUT" ELSE "BREAK-IN"
                     IN  /\ logs' = Append(logs, Row(DateOf(now), action))
                         /\ isUserOnBreak' = newBreakStatus
                         /\ ret' = [op |-> "toggleBreak", action |-> action]
            /\ UNCHANGED <<logSheet, syncSheet, syncTop, synced, isClockedIn, mails>>

\* sendReportEmail that appends its rows and clears the flags only when the
\* email was sent
CallSendReportEmail_RollsBack ==
    /\ arg' = Null
    /\ IF ~isClockedIn
       THEN /\ ret' = [op |-> "sendReportEmail", alert |-> "Error"]
            /\ UNCHANGED <<sheets, props, clock, mails>>
       ELSE /\ Len(logs) + 2 <= MaxRows
            /\ \E now \in WorkInstants : \E sent \in BOOLEAN :
                  /\ now >= clock /\ clock' = now
                  /\ LET logged == Append(logs, Row(DateOf(now), "OUT"))
                         report == getReportData(logSheet, logged)
                         lastReportedTime == getLastReportedTimestamp(logged)
                         totalWorkDurationString == formatMsToDuration(report.totalMs)
                     IN  /\ logs' = IF sent
                                    THEN Append(logged, ReportedRow(DateOf(now), lastReportedTime,
                                                                    totalWorkDurationString))
                                    ELSE logs
                         /\ isClockedIn' = ~sent
                         /\ isUserOnBreak' = (IF sent THEN FALSE ELSE isUserOnBreak)
                         /\ mails' = IF sent THEN mails + 1 ELSE mails
                         /\ ret' = [op |-> "sendReportEmail", report |-> report,
                                    lastReportedTime |-> lastReportedTime,
                                    totalWorkDurationString |-> totalWorkDurationString,
                                    html |-> generateHtmlReportContent(report),
                                    sent |-> sent]
            /\ UNCHANGED <<logSheet, syncSheet, syncTop, synced>>

\* the OUT row, the report of the rows since the last REPORTED row, the
\* REPORTED row, then the email, which MailApp may fail to send
CallSendReportEmail ==
    /\ arg' = Null
    /\ IF ~isClockedIn
       THEN /\ ret' = [op |-> "sendReportEmail", alert |-> "Error"]
            /\ UNCHANGED <<sheets, props, clock, mails>>
       ELSE /\ Len(logs) + 2 <= MaxRows
            /\ isUserOnBreak' = FALSE
            /\ isClockedIn' = FALSE
            /\ \E now \in WorkInstants : \E sent \in BOOLEAN :
                  /\ now >= clock /\ clock' = now
                  /\ LET logged == Append(logs, Row(DateOf(now), "OUT"))
                         report == getReportData(logSheet, logged)
                         lastReportedTime == getLastReportedTimestamp(logged)
                         totalWorkDurationString == formatMsToDuration(report.totalMs)
                     IN  /\ logs' = Append(logged, ReportedRow(DateOf(now), lastReportedTime,
                                                               totalWorkDurationString))
                         /\ mails' = IF sent THEN mails + 1 ELSE mails
                         /\ ret' = [op |-> "sendReportEmail", report |-> report,
                                    lastReportedTime |-> lastReportedTime,
                                    totalWorkDurationString |-> totalWorkDurationString,
                                    html |-> generateHtmlReportContent(report),
                                    sent |-> sent]
            /\ UNCHANGED <<logSheet, syncSheet, syncTop, synced>>

\* markHoursReported that clears the break flag before it checks the clock
CallMarkHoursReported_ClearsBreakFirst ==
    /\ arg' = Null
    /\ isUserOnBreak' = FALSE
    /\ IF isClockedIn
       THEN /\ ret' = [op |-> "markHoursReported", alert |-> "Cannot Report Hours"]
            /\ UNCHANGED <<sheets, isClockedIn, clock, mails>>
       ELSE /\ Len(logs) < MaxRows
            /\ \E now \in WorkInstants :
                  /\ now >= clock /\ clock' = now
                  /\ LET report == getReportData(logSheet, logs)
                         lastReportedTime == getLastReportedTimestamp(logs)
                         totalWorkDurationString == formatMsToDuration(report.totalMs)
                     IN  /\ logs' = Append(logs, ReportedRow(DateOf(now), lastReportedTime,
                                                             totalWorkDurationString))
                         /\ ret' = [op |-> "markHoursReported", report |-> report,
                                    lastReportedTime |-> lastReportedTime,
                                    totalWorkDurationString |-> totalWorkDurationString]
            /\ UNCHANGED <<logSheet, syncSheet, syncTop, synced, isClockedIn, mails>>

CallMarkHoursReported ==
    /\ arg' = Null
    /\ IF isClockedIn
       THEN /\ ret' = [op |-> "markHoursReported", alert |-> "Cannot Report Hours"]
            /\ UNCHANGED <<sheets, props, clock, mails>>
       ELSE /\ Len(logs) < MaxRows
            /\ isUserOnBreak' = FALSE
            /\ \E now \in WorkInstants :
                  /\ now >= clock /\ clock' = now
                  /\ LET report == getReportData(logSheet, logs)
                         lastReportedTime == getLastReportedTimestamp(logs)
                         totalWorkDurationString == formatMsToDuration(report.totalMs)
                     IN  /\ logs' = Append(logs, ReportedRow(DateOf(now), lastReportedTime,
                                                             totalWorkDurationString))
                         /\ ret' = [op |-> "markHoursReported", report |-> report,
                                    lastReportedTime |-> lastReportedTime,
                                    totalWorkDurationString |-> totalWorkDurationString]
            /\ UNCHANGED <<logSheet, syncSheet, syncTop, synced, isClockedIn, mails>>

----------------------------------------------------------------------------
(* Specification SpecWorkflow: from an empty 'logs' sheet with both flags  *)
(* false and a synced sheet holding one session, the workflow operations   *)
(* and the report functions in any order, one call at a time.              *)

InitWorkflow ==
    /\ logSheet = TRUE /\ logs = <<>>
    /\ syncSheet = TRUE
    /\ synced = <<Row(DateOf(0), "CLOCK_IN"), Row(DateOf(Tick), "CLOCK_OUT")>>
    /\ AtRest
    /\ arg = Null
    /\ ret = NoCall

NextWorkflow ==
    \/ \E t \in WorkInstants : CallRecordTimeLog(IsoText(t))
    \/ CallInitializeProperties
    \/ CallToggleBreak
    \/ CallSendReportEmail
    \/ CallMarkHoursReported
    \/ CallGetReportData
    \/ CallGetLastReportedTimestamp
    \/ CallPreviewReportEmail
    \/ CallCalculateReportFromSyncedLogs(Null)

SpecWorkflow == InitWorkflow /\ [][NextWorkflow]_vars

----------------------------------------------------------------------------
(* What the claims speak of, stated on the rows and not by the loops.      *)

\* the rows whose timestamp is a valid instant, in order
ValidRows(rows) == SelectSeq(rows, LAMBDA r : IsDate(r.ts))

\* the rows of 'logs' that getReportData feeds to its loop
FedLocal == logsToProcessOf(getValues(logs))

\* row j closes a session: it is a closing row, an opening row precedes it
\* and no other closing row lies between the two
Closes(rows, j, opening, closing) ==
    /\ rows[j].action = closing
    /\ \E i \in 1..(j - 1) :
          /\ rows[i].action = opening
          /\ \A k \in (i + 1)..(j - 1) : rows[k].action # closing

ClosingRows(rows, opening, closing) ==
    {j \in 1..Len(rows) : Closes(rows, j, opening, closing)}

\* the most recent opening row before row j
Opener(rows, j, opening) ==
    CHOOSE i \in 1..(j - 1) :
        /\ rows[i].action = opening
        /\ \A k \in (i + 1)..(j - 1) : rows[k].action # opening

RECURSIVE Ascending(_)
\* the numbers of a finite set in ascending order
Ascending(S) ==
    IF S = {} THEN <<>>
    ELSE LET least == CHOOSE x \in S : \A y \in S : x <= y
         IN  <<least>> \o Ascending(S \ {least})

RECURSIVE Sum(_)
\* the sum of a sequence of numbers
Sum(q) == IF q = <<>> THEN 0 ELSE Head(q) + Sum(Tail(q))

CalledGetReportData == ret.op = "getReportData" /\ logSheet /\ Len(logs) > 0
CalledCalculate == ret.op = "calculateReportFromSyncedLogs" /\ syncSheet /\ Len(synced) > 0

----------------------------------------------------------------------------
(* C1: the number of sessions a reconstructor emits is the number of       *)
(* OUT / CLOCK_OUT rows that are preceded by an IN / CLOCK_IN with no      *)
(* other OUT / CLOCK_OUT in between, a session paused on a break counting  *)
(* as open. Rows whose timestamp is no instant are left out of the count.  *)
(* C1_SessionCount states it for getReportData, C1_SyncedSessionCount for  *)
(* calculateReportFromSyncedLogs.                                          *)

C1_SessionCount ==
    CalledGetReportData =>
        Len(ret.report.sessions) = Cardinality(ClosingRows(ValidRows(FedLocal), "IN", "OUT"))

C1_SyncedSessionCount ==
    CalledCalculate =>
        Len(ret.locals.sessions)
            = Cardinality(ClosingRows(ValidRows(synced), "CLOCK_IN", "CLOCK_OUT"))

\* an OUT that follows a BREAK-OUT of an open session has been processed
C1_Witness ==
    /\ CalledGetReportData
    /\ \E j \in 2..Len(logs) :
          /\ logs[j].action = "OUT" /\ logs[j - 1].action = "BREAK-OUT"
          /\ IsDate(logs[j].ts) /\ IsDate(logs[j - 1].ts)
          /\ Closes(ValidRows(FedLocal), Len(ValidRows(FedLocal)), "IN", "OUT")

----------------------------------------------------------------------------
(* C2: for IN at t0, k >= 0 pairs BREAK-OUT at b_i, BREAK-IN at r_i, OUT   *)
(* at t_end, all valid, getReportData emits exactly one session, whose     *)
(* duration is (t_end - t0) minus the sum of the breaks (r_i - b_i).       *)

IsPattern(rows) ==
    /\ Len(rows) >= 2 /\ Len(rows) % 2 = 0
    /\ \A i \in 1..Len(rows) :
          IsDate(rows[i].ts) /\ rows[i].action = PatternAction(i, (Len(rows) - 2) \div 2)

\* the sum of r_i - b_i over the break pairs of a pattern
BreakTime(rows) ==
    Sum([i \in 1..((Len(rows) - 2) \div 2) |->
            getTime(rows[2 * i + 1].ts) - getTime(rows[2 * i].ts)])

WorkTime(rows) == getTime(rows[Len(rows)].ts) - getTime(rows[1].ts) - BreakTime(rows)

C2_WorkingSegmentsOnly ==
    (CalledGetReportData /\ IsPattern(logs)) =>
        /\ Len(ret.report.sessions) = 1
        /\ ret.report.totalMs = WorkTime(logs)
        /\ ret.report.sessions[1] =
              <<formatDateYMD(logs[1].ts), formatDateHMS(logs[1].ts),
                formatDateHMS(logs[Len(logs)].ts), formatMsToDuration(WorkTime(logs))>>

\* two break pairs, the first of positive length, in a session that worked
C2_Witness ==
    /\ CalledGetReportData /\ IsPattern(logs) /\ Len(logs) = 6
    /\ getTime(logs[3].ts) > getTime(logs[2].ts)
    /\ ret.report.totalMs > 0
    /\ ret.report.totalMs < getTime(logs[6].ts) - getTime(logs[1].ts)

----------------------------------------------------------------------------
(* C3: in calculateReportFromSyncedLogs the duration of every emitted      *)
(* session is the timestamp of its CLOCK_OUT minus the timestamp of the    *)
(* most recent CLOCK_IN before it, and the grand total is the sum of these *)
(* differences.                                                            *)

\* the differences CLOCK_OUT - CLOCK_IN of the closing rows, in order
SyncDurations(rows) ==
    LET closing == Ascending(ClosingRows(rows, "CLOCK_IN", "CLOCK_OUT"))
    IN  [n \in 1..Len(closing) |->
            getTime(rows[closing[n]].ts)
                - getTime(rows[Opener(rows, closing[n], "CLOCK_IN")].ts)]

C3_WallClockDifference ==
    CalledCalculate =>
        LET expected == SyncDurations(ValidRows(synced))
            sessions == ret.locals.sessions
        IN  /\ Len(sessions) = Len(expected)
            /\ \A n \in 1..Len(sessions) : sessions[n][4] = formatMsToDuration(expected[n])
            /\ ret.locals.grandTotalDurationMs = Sum(expected)

\* two sessions of positive length have been emitted
C3_Witness ==
    /\ CalledCalculate
    /\ Len(ret.locals.sessions) = 2
    /\ ret.locals.sessions[1][4] = formatMsToDuration(Tick)
    /\ ret.locals.grandTotalDurationMs = 2 * Tick

----------------------------------------------------------------------------
(* C4: for every non-negative integer ms, parsing the string produced by   *)
(* formatMsToDuration(ms) back to milliseconds yields exactly ms.          *)
(* C4_RoundTripLossless states it; the code keeps whole seconds only, and  *)
(* C4_RoundTripWholeSeconds states what it yields: ms less its remainder   *)
(* modulo 1000, hence ms exactly when ms is a multiple of 1000.            *)

Parsed == ret.op = "durationStringToMs"

C4_RoundTripLossless == Parsed => ret.ms = arg

C4_RoundTripWholeSeconds ==
    Parsed => /\ ret.ms = arg - (arg % 1000)
              /\ (ret.ms = arg) <=> (arg % 1000 = 0)

\* a duration of a hundred hours or more, with a fraction of a second
C4_Witness == Parsed /\ arg >= 100 * 3600000 + 59 * 60000 /\ arg % 1000 = 999

----------------------------------------------------------------------------
(* C5: for every log holding a REPORTED row, getLastReportedTimestamp      *)
(* returns the timestamp of the last such row in storage order, whatever   *)
(* follows it. C5_LastReportedRow states it; the scan passes over a        *)
(* REPORTED row whose timestamp is no Date, and C5_LastDatedReportedRow    *)
(* states what holds: the timestamp of the last REPORTED row that has one. *)

CalledCheckpoint == ret.op = "getLastReportedTimestamp"

ReportedRows == {i \in 1..Len(logs) : logs[i].action = "REPORTED"}
DatedReportedRows == {i \in ReportedRows : IsDate(logs[i].ts)}
Last(S) == CHOOSE i \in S : \A j \in S : j <= i

C5_LastReportedRow ==
    (CalledCheckpoint /\ ReportedRows # {}) => ret.value = logs[Last(ReportedRows)].ts

C5_LastDatedReportedRow ==
    (CalledCheckpoint /\ DatedReportedRows # {}) =>
        ret.value = logs[Last(DatedReportedRows)].ts

\* two dated REPORTED rows of different instants, the later one followed by
\* a REPORTED row without a Date
C5_Witness ==
    /\ CalledCheckpoint
    /\ Len(logs) = 3
    /\ DatedReportedRows = {1, 2} /\ ReportedRows = {1, 2, 3}
    /\ logs[1].ts # logs[2].ts
    /\ ret.value = logs[2].ts

----------------------------------------------------------------------------
(* C6: for every log with no REPORTED row, getLastReportedTimestamp        *)
(* returns the timestamp of the earliest row whose timestamp is a valid    *)
(* instant, and the epoch only when no row has a valid timestamp.          *)

DatedRows == {i \in 1..Len(logs) : IsDate(logs[i].ts)}
First(S) == CHOOSE i \in S : \A j \in S : i <= j

C6_EarliestValidRow ==
    (CalledCheckpoint /\ ReportedRows = {}) =>
        ret.value = IF DatedRows # {} THEN logs[First(DatedRows)].ts ELSE DateOf(0)

\* no REPORTED row, a first row without a Date and a dated row after it
C6_Witness ==
    /\ CalledCheckpoint /\ ReportedRows = {}
    /\ Len(logs) >= 2 /\ ~IsDate(logs[1].ts) /\ IsDate(logs[2].ts)
    /\ getTime(logs[2].ts) > 0

----------------------------------------------------------------------------
(* C7: a row whose timestamp is no valid instant never advances or resets  *)
(* a reconstructor: the sessions and total of the loop of getReportData    *)
(* and of calculateReportFromSyncedLogs are those of the same rows with    *)
(* the invalid-timestamp rows removed.                                     *)

C7_InvalidRowsSkipped ==
    /\ CalledGetReportData =>
          LET clean == reportLoop(ValidRows(FedLocal))
          IN  /\ ret.report.sessions = clean.sessions
              /\ ret.report.totalMs = clean.grandTotalDurationMs
    /\ CalledCalculate =>
          LET clean == syncLoopFrom(SyncLocals, ValidRows(synced))
          IN  /\ ret.locals.sessions = clean.sessions
              /\ ret.locals.grandTotalDurationMs = clean.grandTotalDurationMs

\* a session was emitted across a row without a Date
C7_Witness ==
    /\ CalledGetReportData
    /\ Len(logs) = 3 /\ logs[1].action = "IN" /\ logs[3].action = "OUT"
    /\ ~IsDate(logs[2].ts) /\ logs[2].action = "OUT"
    /\ Len(ret.report.sessions) = 1

----------------------------------------------------------------------------
(* C8: for every non-empty list of sessions, generateHtmlReportContent     *)
(* renders exactly one row per distinct session date key, whose value is   *)
(* the sum of the durations of the sessions with exactly that date key, in *)
(* ascending string order of the date keys, then one grand-total row.      *)

Rendered == ret.op = "generateHtmlReportContent"

DateKeys(sessions) == {sessions[i][1] : i \in 1..Len(sessions)}

\* the sum of the durations of the sessions of one date, each read off its
\* HH:MM:SS string
DayTotal(sessions, date) ==
    Sum([i \in 1..Len(sessions) |->
            IF sessions[i][1] = date
            THEN LET d == sessions[i][4]
                 IN  ((DigitValue(d[1]) * 10 + DigitValue(d[2])) * 3600
                      + (DigitValue(d[4]) * 10 + DigitValue(d[5])) * 60
                      + DigitValue(d[7]) * 10 + DigitValue(d[8])) * 1000
            ELSE 0])

C8_OneRowPerDate ==
    Rendered =>
        /\ ret.html.kind = "table"
        /\ Len(ret.html.rows) = Cardinality(DateKeys(arg.sessions))
        /\ {ret.html.rows[i][1] : i \in 1..Len(ret.html.rows)} = DateKeys(arg.sessions)
        /\ \A i \in 1..Len(ret.html.rows) :
              ret.html.rows[i][2]
                  = formatMsToDuration(DayTotal(arg.sessions, ret.html.rows[i][1]))
        /\ \A i \in 1..(Len(ret.html.rows) - 1) :
              StringLess(ret.html.rows[i][1], ret.html.rows[i + 1][1])
        /\ ret.html.grandTotal = formatMsToDuration(arg.totalMs)

\* three sessions on two dates, the later date first, two on the same date
C8_Witness ==
    /\ Rendered
    /\ Len(arg.sessions) = 3 /\ Len(ret.html.rows) = 2
    /\ StringLess(arg.sessions[2][1], arg.sessions[1][1])
    /\ arg.sessions[3][1] = arg.sessions[1][1]
    /\ arg.sessions[1][4] # formatMsToDuration(0)
    /\ arg.sessions[3][4] # formatMsToDuration(0)

----------------------------------------------------------------------------
(* C9: for every log state, a log with only the header row included, the   *)
(* report pipeline does not fail: getReportData returns a result with      *)
(* totalMs 0, and rendering it with generateHtmlReportContent yields the   *)
(* 'no sessions' message, exactly when the rows since the last REPORTED    *)
(* row hold no completed session.                                          *)

Previewed == ret.op = "previewReportEmail" /\ logSheet

C9_PipelineNeverFails ==
    Previewed =>
        /\ "html" \in DOMAIN ret
        /\ (ret.html.kind = "message")
              <=> (ClosingRows(ValidRows(FedLocal), "IN", "OUT") = {})
        /\ (ret.html.kind = "message") => ret.report.totalMs = 0

\* the pipeline has run on a log that holds its header row only
C9_Witness == Previewed /\ logs = <<>>

----------------------------------------------------------------------------
(* C10: calculateReportFromSyncedLogs given a window [start, end] only     *)
(* reconstructs sessions from rows whose timestamp lies within it (absent  *)
(* start = epoch zero, absent end = now); rows outside the window never    *)
(* open or close a session. C10_OnlyRowsInWindow states it; the function   *)
(* never reads its argument, and C10_WindowIgnored states what holds: the  *)
(* sessions are those of all the rows with a valid timestamp, whatever     *)
(* window is passed.                                                       *)

\* the sessions of CLOCK_IN .. CLOCK_OUT pairs of rows with valid timestamps
SyncSessions(rows) ==
    LET closing == Ascending(ClosingRows(rows, "CLOCK_IN", "CLOCK_OUT"))
    IN  [n \in 1..Len(closing) |->
            LET out == rows[closing[n]].ts
                in == rows[Opener(rows, closing[n], "CLOCK_IN")].ts
            IN  <<formatDateMDY(in), formatDateHMS(in), formatDateHMS(out),
                  formatMsToDuration(getTime(out) - getTime(in))>>]

\* the timestamp lies in the window; every instant of a row is before now
Within(ts, window) ==
    /\ IsNull(window.start) \/ getTime(window.start) <= getTime(ts)
    /\ IsNull(window.end) \/ getTime(ts) <= getTime(window.end)

InWindow(rows, window) == SelectSeq(rows, LAMBDA r : Within(r.ts, window))

WindowPassed == CalledCalculate /\ ~IsNull(arg)

\* the window passed has no start after its end
Ordered(window) ==
    IsNull(window.start) \/ IsNull(window.end)
        \/ getTime(window.start) <= getTime(window.end)

----------------------------------------------------------------------------
(* C11: for every synced log and every pair of instants a, b, the report   *)
(* calculateReportFromSyncedLogs computes for the window (start = a,       *)
(* end = b) is identical to the one it computes for (start = b, end = a):  *)
(* a window with start > end yields neither an error nor an empty result   *)
(* where the window with its bounds in order yields sessions.              *)

SwappedCall == CalledCalculate /\ "swappedFrom" \in DOMAIN ret

----------------------------------------------------------------------------
(* C12: writeRawLogsFromJson called with a payload that is not valid JSON  *)
(* is a no-op: the set of sheets and the contents of the synced sheet      *)
(* after the call are those before the call, in every prior state, the     *)
(* state in which the synced sheet does not exist yet included.            *)

C12_InvalidJsonIsNoOp ==
    [][(ret'.op = "writeRawLogsFromJson" /\ arg' = InvalidJson) =>
          (syncSheet' = syncSheet /\ syncTop' = syncTop /\ synced' = synced)]_vars

\* the call with a payload that does not parse has left a sheet behind
C12_Witness ==
    /\ ret.op = "writeRawLogsFromJson" /\ arg = InvalidJson
    /\ ret.inserted /\ syncSheet /\ syncTop = Blank /\ synced = <<>>

----------------------------------------------------------------------------
(* C13: after any sequence of workflow operations (recordTimeLog,          *)
(* toggleBreak, sendReportEmail, markHoursReported), one at a time, from   *)
(* an empty log with both flags false, the clock-in flag is true exactly   *)
(* when replaying the whole log through the local state machine ends with  *)
(* a session open, and the on-break flag is true exactly when that replay  *)
(* ends Paused: session open, not accruing.                                *)

\* the locals of the local state machine after every row of 'logs'
Replay == reportLoop(logs)
ReplayOpen == ~IsNull(Replay.sessionStartLog)
ReplayPaused == ReplayOpen /\ IsNull(Replay.sessionStartTime)

C13_FlagsMatchReplay ==
    /\ isClockedIn <=> ReplayOpen
    /\ isUserOnBreak <=> ReplayPaused

\* on a break in a second session, after a first one was reported by email
C13_Witness ==
    /\ isClockedIn /\ isUserOnBreak
    /\ Len(logs) = 5 /\ logs[3].action = "REPORTED" /\ logs[5].action = "BREAK-OUT"
    /\ mails = 1

----------------------------------------------------------------------------
(* C14: for every log, its timestamps in any order of value, neither       *)
(* getReportData nor calculateReportFromSyncedLogs passes a negative       *)
(* duration to formatMsToDuration, and the total is never negative. A      *)
(* duration below zero is formatted with a '-' as its first character.     *)

C14_NoNegativeDuration ==
    /\ CalledGetReportData =>
          /\ ret.report.totalMs >= 0
          /\ \A n \in 1..Len(ret.report.sessions) : ret.report.sessions[n][4][1] # "-"
    /\ CalledCalculate =>
          /\ ret.locals.grandTotalDurationMs >= 0
          /\ \A n \in 1..Len(ret.locals.sessions) : ret.locals.sessions[n][4][1] # "-"

\* a session was emitted for an IN stamped later than the OUT that closes it
C14_Witness ==
    /\ CalledGetReportData
    /\ Len(logs) = 2 /\ logs[1].action = "IN" /\ logs[2].action = "OUT"
    /\ IsDate(logs[1].ts) /\ IsDate(logs[2].ts)
    /\ getTime(logs[1].ts) > getTime(logs[2].ts)
    /\ Len(ret.report.sessions) = 1

----------------------------------------------------------------------------
(* C15: formatMsToDuration given a negative number of milliseconds fails   *)
(* with an InvalidDuration error and never returns a duration string.      *)

C15_NegativeInputFails ==
    (ret.op = "formatMsToDuration" /\ arg < 0) =>
        ("threw" \in DOMAIN ret /\ ret.threw = "InvalidDuration")

\* formatMsToDuration(-1) has returned
C15_Witness ==
    /\ ret.op = "formatMsToDuration" /\ arg = -1
    /\ "value" \in DOMAIN ret
    /\ ret.value = <<"-", "1", ":", "-", "1", ":", "-", "1">>

----------------------------------------------------------------------------
(* C16: report computation is read-only: getReportData,                    *)
(* getLastReportedTimestamp, calculateReportFromSyncedLogs and             *)
(* previewReportEmail append no row to any log, leave the clock-in and     *)
(* on-break flags unchanged, and send no email, in every state.            *)

ReadOps == {"getReportData", "getLastReportedTimestamp",
            "calculateReportFromSyncedLogs", "previewReportEmail"}

C16_ReportsAreReadOnly ==
    [][ret'.op \in ReadOps =>
          /\ logSheet' = logSheet /\ logs' = logs
          /\ syncSheet' = syncSheet /\ syncTop' = syncTop /\ synced' = synced
          /\ isClockedIn' = isClockedIn /\ isUserOnBreak' = isUserOnBreak
          /\ mails' = mails]_vars

\* the preview has run while clocked in and on a break, after an email
C16_Witness ==
    /\ ret.op = "previewReportEmail"
    /\ isClockedIn /\ isUserOnBreak /\ mails = 1 /\ Len(logs) = 5

----------------------------------------------------------------------------
(* C17: when the synced sheet has at least one data row,                   *)
(* calculateReportFromSyncedLogs returns a header row followed by exactly  *)
(* one row per emitted session, in the order of the closing events (or by  *)
(* a single message row when no session is emitted); every row has         *)
(* exactly 5 columns and the first column of every row is the empty        *)
(* string.                                                                 *)

C17_HeaderThenOneRowPerSession ==
    CalledCalculate =>
        LET expected == SyncSessions(ValidRows(synced))
            value == ret.value
        IN  /\ Len(value) = 1 + (IF Len(expected) = 0 THEN 1 ELSE Len(expected))
            /\ value[1] = <<Empty, <<"Date (Session)">>, <<"Time IN">>, <<"Time OUT">>,
                            <<"Total Duration">>>>
            /\ \A n \in 1..Len(expected) : SubSeq(value[n + 1], 2, 5) = expected[n]
            /\ Len(expected) = 0 => value[2][2] = NoSyncSessions
            /\ \A i \in 1..Len(value) : Len(value[i]) = 5 /\ value[i][1] = Empty

\* two sessions, the second of which closes later, were returned
C17_Witness ==
    /\ CalledCalculate
    /\ Len(ret.value) = 3
    /\ ret.value[2][4] # ret.value[3][4]

----------------------------------------------------------------------------
(* C18: when two opening events (IN, IN or CLOCK_IN, CLOCK_IN) occur with  *)
(* no closing event between them, the earlier open session is discarded:   *)
(* the session emitted at the next closing event has the later opening     *)
(* event as its start, and its duration includes no time accrued before    *)
(* that later opening event. Stated twice: the result is the one of the    *)
(* rows without those from the earlier opening up to the later one; and a  *)
(* closing event right after the two openings emits the session from the   *)
(* later opening to the closing event.                                     *)

\* rows i < j both open and no row between them closes
OpensTwice(rows, i, j, opening, closing) ==
    /\ i < j /\ rows[i].action = opening /\ rows[j].action = opening
    /\ \A k \in (i + 1)..(j - 1) : rows[k].action # closing

\* the rows without rows i .. j - 1
WithoutRange(rows, i, j) == SubSeq(rows, 1, i - 1) \o SubSeq(rows, j, Len(rows))

C18_LaterOpeningWins ==
    /\ CalledGetReportData =>
          LET rows == ValidRows(FedLocal)
          IN  /\ \A i, j \in 1..Len(rows) :
                    OpensTwice(rows, i, j, "IN", "OUT") =>
                        LET rest == reportLoop(WithoutRange(rows, i, j))
                        IN  /\ ret.report.sessions = rest.sessions
                            /\ ret.report.totalMs = rest.grandTotalDurationMs
              /\ \A k \in 1..(Len(rows) - 2) :
                    (OpensTwice(rows, k, k + 1, "IN", "OUT") /\ rows[k + 2].action = "OUT") =>
                        LET n == Len(reportLoop(SubSeq(rows, 1, k)).sessions) + 1
                        IN  /\ Len(reportLoop(SubSeq(rows, 1, k + 2)).sessions) = n
                            /\ Len(ret.report.sessions) >= n
                            /\ ret.report.sessions[n] =
                                  <<formatDateYMD(rows[k + 1].ts), formatDateHMS(rows[k + 1].ts),
                                    formatDateHMS(rows[k + 2].ts),
                                    formatMsToDuration(getTime(rows[k + 2].ts)
                                                         - getTime(rows[k + 1].ts))>>
    /\ CalledCalculate =>
          LET rows == ValidRows(synced)
          IN  /\ \A i, j \in 1..Len(rows) :
                    OpensTwice(rows, i, j, "CLOCK_IN", "CLOCK_OUT") =>
                        LET rest == syncLoopFrom(SyncLocals, WithoutRange(rows, i, j))
                        IN  /\ ret.locals.sessions = rest.sessions
                            /\ ret.locals.grandTotalDurationMs = rest.grandTotalDurationMs
              /\ \A k \in 1..(Len(rows) - 2) :
                    (/\ OpensTwice(rows, k, k + 1, "CLOCK_IN", "CLOCK_OUT")
                     /\ rows[k + 2].action = "CLOCK_OUT") =>
                        LET n == Len(syncLoopFrom(SyncLocals, SubSeq(rows, 1, k)).sessions) + 1
                        IN  /\ Len(ret.locals.sessions) >= n
                            /\ ret.locals.sessions[n] =
                                  <<formatDateMDY(rows[k + 1].ts), formatDateHMS(rows[k + 1].ts),
                                    formatDateHMS(rows[k + 2].ts),
                                    formatMsToDuration(getTime(rows[k + 2].ts)
                                                         - getTime(rows[k + 1].ts))>>

\* IN, IN, OUT at three different instants has emitted one session
C18_Witness ==
    /\ CalledGetReportData
    /\ Len(logs) = 3 /\ \A i \in 1..3 : IsDate(logs[i].ts)
    /\ logs[1].action = "IN" /\ logs[2].action = "IN" /\ logs[3].action = "OUT"
    /\ getTime(logs[1].ts) < getTime(logs[2].ts)
    /\ Len(ret.report.sessions) = 1

----------------------------------------------------------------------------
(* C19: in getReportData a BREAK-OUT, BREAK or BREAK-IN row that occurs    *)
(* while no session is open (before any IN of the rows since the last      *)
(* REPORTED row, or after an OUT and before the next IN) is a no-op: the   *)
(* sessions and the total are those obtained with that row removed.        *)
(* C19_BreakWithoutSessionIsNoOp states it of what getReportData returns;  *)
(* C19_LoopUnaffected states it of the loop alone.                         *)

BreakActions == {"BREAK-OUT", "BREAK", "BREAK-IN"}

\* the rows of 'logs' since the last REPORTED row that precede row k and
\* open or close a session
Boundaries(k) ==
    {i \in startIndexOf(getValues(logs))..(k - 1) :
        IsDate(logs[i].ts) /\ logs[i].action \in {"IN", "OUT"}}

\* row k is a break row of the rows processed, met while no session is open
IdleBreak(k) ==
    /\ k >= startIndexOf(getValues(logs))
    /\ logs[k].action \in BreakActions
    /\ Boundaries(k) # {} => logs[Last(Boundaries(k))].action = "OUT"

\* the rows without row k
Without(rows, k) == SubSeq(rows, 1, k - 1) \o SubSeq(rows, k + 1, Len(rows))

C19_BreakWithoutSessionIsNoOp ==
    CalledGetReportData =>
        \A k \in 1..Len(logs) :
            IdleBreak(k) => getReportData(logSheet, Without(logs, k)) = ret.report

C19_LoopUnaffected ==
    CalledGetReportData =>
        \A k \in 1..Len(logs) :
            IdleBreak(k) =>
                LET rest == reportLoop(logsToProcessOf(getValues(Without(logs, k))))
                IN  /\ ret.report.sessions = rest.sessions
                    /\ ret.report.totalMs = rest.grandTotalDurationMs

\* the report of a log whose only row is a break row
C19_Witness ==
    /\ CalledGetReportData
    /\ Len(logs) = 1 /\ IdleBreak(1) /\ IsDate(logs[1].ts)
    /\ ret.report.sessions = <<>>

----------------------------------------------------------------------------
(* C20: the legacy action BREAK is a synonym for BREAK-OUT: for every      *)
(* sequence of rows, replacing any BREAK-OUT rows by BREAK rows, or the    *)
(* reverse, leaves the sessions and the total returned by getReportData    *)
(* unchanged.                                                              *)

\* the rows with BREAK-OUT and BREAK exchanged in the rows of K
Exchanged(rows, K) ==
    [i \in 1..Len(rows) |->
        IF i \in K
        THEN Row(rows[i].ts, IF rows[i].action = "BREAK" THEN "BREAK-OUT" ELSE "BREAK")
        ELSE rows[i]]

C20_BreakIsBreakOut ==
    CalledGetReportData =>
        \A K \in SUBSET {i \in 1..Len(logs) : logs[i].action \in {"BREAK-OUT", "BREAK"}} :
            getReportData(logSheet, Exchanged(logs, K)) = ret.report

\* a session that holds a break of positive length was reported
C20_Witness ==
    /\ CalledGetReportData /\ IsPattern(logs) /\ Len(logs) = 4
    /\ getTime(logs[3].ts) > getTime(logs[2].ts)
    /\ Len(ret.report.sessions) = 1 /\ ret.report.totalMs > 0

----------------------------------------------------------------------------
(* C21: in calculateReportFromSyncedLogs the rows whose action is neither  *)
(* CLOCK_IN nor CLOCK_OUT (break events, REPORTED, ACTION_MISSING, the     *)
(* local IN and OUT) are inert: inserting or removing any such rows,       *)
(* anywhere in the sequence, leaves the emitted sessions unchanged.        *)

InertRows(rows) == {i \in 1..Len(rows) : rows[i].action \notin {"CLOCK_IN", "CLOCK_OUT"}}

\* the rows whose index is not in K, in order
Outside(rows, K) ==
    LET kept == Ascending((1..Len(rows)) \ K)
    IN  [n \in 1..Len(kept) |-> rows[kept[n]]]

C21_OtherActionsInert ==
    CalledCalculate =>
        \A K \in SUBSET InertRows(synced) :
            LET rest == syncLoopFrom(SyncLocals, Outside(synced, K))
            IN  /\ ret.locals.sessions = rest.sessions
                /\ ret.locals.sessions = SyncSessions(Outside(synced, InertRows(synced)))

\* a session was emitted across a local OUT that lies between its two rows
C21_Witness ==
    /\ CalledCalculate
    /\ Len(synced) = 3 /\ synced[1].action = "CLOCK_IN" /\ synced[2].action = "OUT"
    /\ synced[3].action = "CLOCK_OUT"
    /\ Len(ret.locals.sessions) = 1

----------------------------------------------------------------------------
(* C22: for every valid non-empty payload given to writeRawLogsFromJson    *)
(* and followed by calculateReportFromSyncedLogs, a payload row whose      *)
(* timestamp is missing or unparsable is stored with a timestamp that is   *)
(* no instant (the placeholder CORRUPT_TIMESTAMP or the raw text) and      *)
(* contributes to no session. C22_CorruptRowsRemovable states the report   *)
(* to be the report for the payload without those rows;                    *)
(* C22_CorruptRowsNoSession states the emitted sessions to be the same,    *)
(* and the report whenever a row with a parsable timestamp remains.        *)

\* the entries that write this row
EntriesFor(row) ==
    {e \in PayloadEntries : Row(timestampValueOf(e), actionStringOf(e)) = row}

\* the synced sheet was written from a non-empty payload
WrittenFromPayload ==
    /\ syncTop = SyncHeaders /\ Len(synced) > 0
    /\ \A i \in 1..Len(synced) : EntriesFor(synced[i]) # {}

\* a payload that wrote the synced sheet
PayloadOf(rows) == [i \in 1..Len(rows) |-> CHOOSE e \in EntriesFor(rows[i]) : TRUE]

Corrupt(entry) == "iso" \notin DOMAIN entry.timestamp
Parsable(entries) == SelectSeq(entries, LAMBDA e : ~Corrupt(e))

StoredAsNoInstant(entries) ==
    \A i \in 1..Len(entries) :
        Corrupt(entries[i]) =>
            /\ ~IsDate(synced[i].ts)
            /\ synced[i].ts = NonDate \/ synced[i].ts = entries[i].timestamp

\* the report calculateReportFromSyncedLogs returns after the payload
ReportAfter(entries) ==
    calculateReportFromSyncedLogs(Null, TRUE, writtenRows(JsonArray(entries), synced))

C22_CorruptRowsRemovable ==
    (ret.op = "calculateReportFromSyncedLogs" /\ WrittenFromPayload) =>
        LET entries == PayloadOf(synced)
        IN  /\ StoredAsNoInstant(entries)
            /\ ret.value = ReportAfter(Parsable(entries))

C22_CorruptRowsNoSession ==
    (ret.op = "calculateReportFromSyncedLogs" /\ WrittenFromPayload) =>
        LET entries == PayloadOf(synced)
        IN  /\ StoredAsNoInstant(entries)
            /\ ret.locals.sessions =
                  syncLoopFrom(SyncLocals, writtenRows(JsonArray(Parsable(entries)), synced)).sessions
            /\ (Parsable(entries) # <<>>) => ret.value = ReportAfter(Parsable(entries))

\* a payload whose CLOCK_OUT has an unparsable timestamp was written and the
\* report read: the raw text is stored and no session is emitted
C22_Witness ==
    /\ ret.op = "calculateReportFromSyncedLogs" /\ WrittenFromPayload
    /\ Len(synced) = 2
    /\ synced[1].action = "CLOCK_IN" /\ IsDate(synced[1].ts)
    /\ synced[2].action = "CLOCK_OUT" /\ synced[2].ts = Unparsable
    /\ ret.locals.sessions = <<>>

----------------------------------------------------------------------------
(* C23: right after markHoursReported or sendReportEmail has appended its  *)
(* REPORTED row, and until another row is appended, getReportData returns  *)
(* no sessions and totalMs 0; more generally getReportData processes the   *)
(* rows stored after the last REPORTED row only, by storage position and   *)
(* whatever their timestamps.                                              *)

\* the rows stored after the last REPORTED row, all of them when there is none
SinceLastReported(rows) ==
    LET reported == {i \in 1..Len(rows) : rows[i].action = "REPORTED"}
    IN  IF reported = {} THEN rows ELSE SubSeq(rows, Last(reported) + 1, Len(rows))

C23_OnlyRowsAfterLastReported ==
    CalledGetReportData =>
        /\ (logs[Len(logs)].action = "REPORTED") =>
              ret.report = [sessions |-> <<>>, totalMs |-> 0]
        /\ ret.report.sessions = reportLoop(SinceLastReported(logs)).sessions
        /\ ret.report.totalMs = reportLoop(SinceLastReported(logs)).grandTotalDurationMs

\* a session was worked and reported by email; getReportData, called before
\* another row is appended, finds nothing
C23_Witness ==
    /\ CalledGetReportData
    /\ Len(logs) = 3 /\ logs[1].action = "IN" /\ logs[2].action = "OUT"
    /\ logs[3].action = "REPORTED" /\ logs[3].status.total # formatMsToDuration(0)
    /\ mails = 1
    /\ ret.report = [sessions |-> <<>>, totalMs |-> 0]

----------------------------------------------------------------------------
(* C24: in a successful sendReportEmail the OUT row is appended and the    *)
(* clock-in flag cleared before the report is computed, and the REPORTED   *)
(* row is appended only after the report and the previous checkpoint have  *)
(* been read; hence the reported total includes the session closed by      *)
(* that OUT, and the reported period starts at the previous checkpoint,    *)
(* not at the new REPORTED row. C24_ReportBetweenOutAndReported states     *)
(* the order alone, C24_TotalIncludesClosedSession the whole claim.        *)

EmailSent == ret.op = "sendReportEmail" /\ "sent" \in DOMAIN ret /\ ret.sent

\* the checkpoint before the call: the last REPORTED row but the new one,
\* the first row when there is none
PreviousCheckpoint ==
    LET earlier == ReportedRows \ {Len(logs)}
    IN  IF earlier = {} THEN logs[1].ts ELSE logs[Last(earlier)].ts

C24_ReportBetweenOutAndReported ==
    EmailSent =>
        /\ logs[Len(logs) - 1].action = "OUT" /\ logs[Len(logs)].action = "REPORTED"
        /\ ~isClockedIn
        /\ ret.report = getReportData(logSheet, SubSeq(logs, 1, Len(logs) - 1))
        /\ ret.lastReportedTime = PreviousCheckpoint
        /\ logs[Len(logs)].status.startDate = PreviousCheckpoint
        /\ logs[Len(logs)].status.total = formatMsToDuration(ret.report.totalMs)

C24_TotalIncludesClosedSession ==
    EmailSent =>
        /\ C24_ReportBetweenOutAndReported
        /\ LET out == Len(logs) - 1
               in == Opener(logs, out, "IN")
               n == Len(ret.report.sessions)
           IN  /\ n > 0
               /\ SubSeq(ret.report.sessions[n], 1, 3) =
                     <<formatDateYMD(logs[in].ts), formatDateHMS(logs[in].ts),
                       formatDateHMS(logs[out].ts)>>

\* the report was sent during a break, one tick after clocking in: the
\* session the OUT row closes is in no total
C24_Witness ==
    /\ EmailSent
    /\ Len(logs) = 4 /\ logs[1] = Row(DateOf(0), "IN")
    /\ logs[2] = Row(DateOf(Tick), "BREAK-OUT") /\ logs[3] = Row(DateOf(Tick), "OUT")
    /\ ret.report = [sessions |-> <<>>, totalMs |-> 0]

----------------------------------------------------------------------------
(* C25: for every report getReportData returns with at least one session,  *)
(* the grand total generateHtmlReportContent renders (from totalMs) equals *)
(* the sum of the per-day totals it renders (from the session duration     *)
(* strings it parses).                                                     *)

PreviewedTable == Previewed /\ "html" \in DOMAIN ret /\ ret.html.kind = "table"

\* the sum of the per-day totals of the rendered table
DailySum(sessions) ==
    LET dailyTotals == dailyTotalsOf(sessions)
        dates == sort(DOMAIN dailyTotals)
    IN  Sum([i \in 1..Len(dates) |-> dailyTotals[dates[i]]])

C25_GrandTotalIsSumOfDays ==
    PreviewedTable =>
        ret.html.grandTotal = formatMsToDuration(DailySum(ret.report.sessions))

\* two sessions of one tick each on one day: no duration is negative, the
\* grand total is rendered from two ticks, the day from twice the whole
\* seconds of one
C25_Witness ==
    /\ PreviewedTable
    /\ logs = <<Row(DateOf(0), "IN"), Row(DateOf(Tick), "OUT"),
                Row(DateOf(0), "IN"), Row(DateOf(Tick), "OUT")>>
    /\ ret.html.grandTotal = formatMsToDuration(2 * Tick)
    /\ Len(ret.html.rows) = 1
    /\ ret.html.rows[1][2] = formatMsToDuration(2 * ((Tick \div 1000) * 1000))

----------------------------------------------------------------------------
(* C26: in every state the workflow operations (initializeProperties,      *)
(* recordTimeLog, toggleBreak, sendReportEmail, markHoursReported) reach   *)
(* from the initial state, the on-break flag is true only if the clock-in  *)
(* flag is true.                                                           *)

C26_BreakOnlyWhileClockedIn == isUserOnBreak => isClockedIn

\* clocked out by recordTimeLog during a break: both flags are false
C26_Witness ==
    /\ ret.op = "recordTimeLog" /\ ret.action = "OUT"
    /\ Len(logs) = 3 /\ logs[2].action = "BREAK-OUT" /\ logs[3].action = "OUT"
    /\ ~isClockedIn /\ ~isUserOnBreak

----------------------------------------------------------------------------
(* C27: a rejected workflow operation changes nothing: toggleBreak while   *)
(* clocked out, markHoursReported while clocked in and sendReportEmail     *)
(* while clocked out each append no log row, leave both flags unchanged    *)
(* and send no email.                                                      *)

\* the step is one of the three calls, made in the state that rejects it
RejectedCall ==
    \/ ret'.op = "toggleBreak" /\ ~isClockedIn
    \/ ret'.op = "markHoursReported" /\ isClockedIn
    \/ ret'.op = "sendReportEmail" /\ ~isClockedIn

C27_RejectedChangesNothing ==
    [][RejectedCall => UNCHANGED <<logs, isClockedIn, isUserOnBreak, mails>>]_vars

\* markHoursReported was rejected during a break, which goes on
C27_Witness ==
    /\ ret.op = "markHoursReported" /\ "alert" \in DOMAIN ret
    /\ isClockedIn /\ isUserOnBreak
    /\ Len(logs) = 2 /\ logs[2].action = "BREAK-OUT"
    /\ mails = 0

----------------------------------------------------------------------------
(* C28: for every log the workflow operations produce with non-decreasing  *)
(* timestamps, the total computed at each sendReportEmail or               *)
(* markHoursReported is the total time, since the previous REPORTED row,   *)
(* during which the clock-in flag was true and the on-break flag false,    *)
(* within sessions that have been clocked out; in particular the work done *)
(* before a break is counted when the user clocks out, or sends the        *)
(* report, while on a break.                                               *)

NonDecreasing(rows) ==
    \A i \in 1..(Len(rows) - 1) : getTime(rows[i].ts) <= getTime(rows[i + 1].ts)

\* the time worked in the open session, the time worked in the sessions
\* clocked out, the flags and the instant the current stretch of work began
Idle == [session |-> 0, total |-> 0, clockedIn |-> FALSE, onBreak |-> FALSE, since |-> 0]

\* the effect on them of the operation that wrote the row
Clocked(st, row) ==
    LET t == getTime(row.ts)
    IN  IF row.action = "IN"
        THEN [st EXCEPT !.clockedIn = TRUE, !.onBreak = FALSE, !.since = t, !.session = 0]
        ELSE IF row.action = "BREAK-OUT"
        THEN [st EXCEPT !.onBreak = TRUE, !.session = @ + (t - st.since)]
        ELSE IF row.action = "BREAK-IN"
        THEN [st EXCEPT !.onBreak = FALSE, !.since = t]
        ELSE IF row.action = "OUT"
        THEN LET worked == IF st.onBreak THEN st.session ELSE st.session + (t - st.since)
             IN  [st EXCEPT !.clockedIn = FALSE, !.onBreak = FALSE, !.session = 0,
                            !.total = @ + worked]
        ELSE st

RECURSIVE ClockedFrom(_, _)
ClockedFrom(st, rows) ==
    IF rows = <<>> THEN st ELSE ClockedFrom(Clocked(st, Head(rows)), Tail(rows))

\* the time worked in the sessions clocked out within the rows
TimeWorked(rows) == ClockedFrom(Idle, rows).total

\* sendReportEmail or markHoursReported has appended its REPORTED row
HoursReported ==
    /\ ret.op \in {"sendReportEmail", "markHoursReported"}
    /\ "report" \in DOMAIN ret

\* the rows between the previous REPORTED row and the new one
ReportedPeriod == SinceLastReported(SubSeq(logs, 1, Len(logs) - 1))

C28_TotalIsTimeWorked ==
    (HoursReported /\ NonDecreasing(logs)) =>
        /\ ret.report.totalMs = TimeWorked(ReportedPeriod)
        /\ logs[Len(logs)].status.total = formatMsToDuration(TimeWorked(ReportedPeriod))

\* one tick of work, then a break during which the user clocks out, then
\* markHoursReported: the total recorded is zero
C28_Witness ==
    /\ ret.op = "markHoursReported" /\ "report" \in DOMAIN ret
    /\ Len(logs) = 4 /\ logs[1] = Row(DateOf(0), "IN")
    /\ logs[2] = Row(DateOf(Tick), "BREAK-OUT") /\ logs[3] = Row(DateOf(Tick), "OUT")
    /\ TimeWorked(ReportedPeriod) = Tick
    /\ ret.report.totalMs = 0

----------------------------------------------------------------------------
(* C29: if the timestamps of the processed rows are valid and              *)
(* non-decreasing in storage order, every session getReportData emits has  *)
(* a duration d with 0 <= d <= (closing OUT timestamp - opening IN         *)
(* timestamp), and totalMs is the sum of the durations of the emitted      *)
(* sessions.                                                               *)

\* the locals of the loop when it reaches row k
LocalsAt(rows, k) == reportLoop(SubSeq(rows, 1, k - 1))

\* row k is an OUT row at which the loop emits a session
EmittedAt(rows, k) ==
    /\ rows[k].action = "OUT" /\ IsDate(rows[k].ts)
    /\ LET st == LocalsAt(rows, k)
       IN  ~IsNull(st.sessionStartTime) /\ ~IsNull(st.sessionStartLog)

\* the duration of the session emitted at row k
DurationAt(rows, k) ==
    LET st == LocalsAt(rows, k)
    IN  st.totalWorkDuration + (getTime(rows[k].ts) - getTime(st.sessionStartTime))

\* closing OUT timestamp - opening IN timestamp
SpanAt(rows, k) == getTime(rows[k].ts) - getTime(rows[Opener(rows, k, "IN")].ts)

C29_DurationWithinSession ==
    (CalledGetReportData /\ ValidRows(FedLocal) = FedLocal /\ NonDecreasing(FedLocal)) =>
        LET closing == Ascending({k \in 1..Len(FedLocal) : EmittedAt(FedLocal, k)})
            d == [n \in 1..Len(closing) |-> DurationAt(FedLocal, closing[n])]
        IN  /\ Len(ret.report.sessions) = Len(closing)
            /\ \A n \in 1..Len(closing) :
                  /\ 0 <= d[n] /\ d[n] <= SpanAt(FedLocal, closing[n])
                  /\ ret.report.sessions[n][4] = formatMsToDuration(d[n])
            /\ ret.report.totalMs = Sum(d)

\* a session with a break that ends before the OUT row: the duration is
\* positive and less than the time between the IN and the OUT rows
C29_Witness ==
    /\ CalledGetReportData /\ ValidRows(FedLocal) = FedLocal /\ NonDecreasing(FedLocal)
    /\ Len(FedLocal) = 4 /\ FedLocal[1].action = "IN" /\ FedLocal[2].action = "BREAK-OUT"
    /\ FedLocal[3].action = "BREAK-IN" /\ EmittedAt(FedLocal, 4)
    /\ 0 < DurationAt(FedLocal, 4) /\ DurationAt(FedLocal, 4) < SpanAt(FedLocal, 4)
    /\ ret.report.totalMs = DurationAt(FedLocal, 4)

----------------------------------------------------------------------------
(* C30: across any sequence of serialized workflow operations no completed *)
(* session is reported twice or skipped: every session emitted when the    *)
(* log is reconstructed is included in the total recorded by exactly one   *)
(* REPORTED row, the first REPORTED row stored after its OUT row. Stated   *)
(* as: the total each REPORTED row records is the sum of the durations of  *)
(* the sessions, emitted in a replay of the whole log, whose OUT row lies  *)
(* between the previous REPORTED row and this one.                         *)

\* the REPORTED row before row r, 0 when there is none
ReportedBefore(r) ==
    LET earlier == {i \in ReportedRows : i < r}
    IN  IF earlier = {} THEN 0 ELSE Last(earlier)

\* the OUT rows of the sessions first followed by the REPORTED row r
ReportedBy(r) == {k \in (ReportedBefore(r) + 1)..(r - 1) : EmittedAt(logs, k)}

C30_EachSessionReportedOnce ==
    \A r \in ReportedRows :
        LET closing == Ascending(ReportedBy(r))
        IN  logs[r].status.total
                = formatMsToDuration(
                      Sum([n \in 1..Len(closing) |-> DurationAt(logs, closing[n])]))

\* a session reported by email, then markHoursReported: the second REPORTED
\* row records nothing
C30_Witness ==
    /\ ret.op = "markHoursReported" /\ "report" \in DOMAIN ret
    /\ Len(logs) = 4 /\ ReportedRows = {3, 4}
    /\ ReportedBy(3) = {2} /\ ReportedBy(4) = {}
    /\ logs[3].status.total = formatMsToDuration(Tick)
    /\ logs[4].status.total = formatMsToDuration(0)

----------------------------------------------------------------------------
(* C31: if sending the email fails inside sendReportEmail, nothing is      *)
(* rolled back: the OUT and REPORTED rows stay in the log, the clock-in    *)
(* and on-break flags stay false, and a later report no longer contains    *)
(* the sessions of the failed report. Stated of the step in which the      *)
(* email fails and of the step that follows it.                            *)

\* sendReportEmail has run to its end and MailApp.sendEmail threw
EmailFailed == ret.op = "sendReportEmail" /\ "sent" \in DOMAIN ret /\ ~ret.sent

\* the step is a call of sendReportEmail in which the email fails
FailingSend ==
    /\ isClockedIn
    /\ ret'.op = "sendReportEmail" /\ "sent" \in DOMAIN ret' /\ ~ret'.sent

ReadsReport(r) == r.op \in {"getReportData", "previewReportEmail"} /\ "report" \in DOMAIN r

C31_FailedEmailRollsNothingBack ==
    [][/\ FailingSend =>
            /\ Len(logs') = Len(logs) + 2 /\ SubSeq(logs', 1, Len(logs)) = logs
            /\ logs'[Len(logs) + 1].action = "OUT"
            /\ logs'[Len(logs) + 2].action = "REPORTED"
            /\ logs'[Len(logs) + 2].status.total = ret'.totalWorkDurationString
            /\ ~isClockedIn' /\ ~isUserOnBreak'
            /\ mails' = mails
       /\ EmailFailed =>
            /\ Len(logs') >= Len(logs) /\ SubSeq(logs', 1, Len(logs)) = logs
            /\ ~isClockedIn /\ ~isUserOnBreak
            /\ (logs' = logs) => (~isClockedIn' /\ ~isUserOnBreak')
            /\ (ReadsReport(ret') /\ logs' = logs) =>
                  ret'.report = [sessions |-> <<>>, totalMs |-> 0]]_vars

\* a session of one tick was closed and recorded by the REPORTED row, no
\* email went out, and the rows since the last REPORTED row are none
C31_Witness ==
    /\ EmailFailed /\ Len(ret.report.sessions) = 1 /\ ret.report.totalMs = Tick
    /\ mails = 0
    /\ Len(logs) = 3 /\ logs[1] = Row(DateOf(0), "IN") /\ logs[2] = Row(DateOf(Tick), "OUT")
    /\ logs[3].action = "REPORTED" /\ logs[3].status.total = formatMsToDuration(Tick)
    /\ ~isClockedIn /\ ~isUserOnBreak
    /\ SinceLastReported(logs) = <<>>

----------------------------------------------------------------------------
(* C32: for every log containing a REPORTED row the reporting period and   *)
(* the reported sessions agree on the checkpoint: getLastReportedTimestamp *)
(* returns the timestamp of the row immediately after which getReportData  *)
(* starts processing. C32_SameCheckpointRow states it of every such log,   *)
(* C32_SameCheckpointRowWhenDated of the logs whose last REPORTED row      *)
(* holds a Date.                                                           *)

\* the row immediately before the first row getReportData processes
CheckpointRowOfReport == logs[startIndexOf(getValues(logs)) - 1]

C32_SameCheckpointRow ==
    (CalledCheckpoint /\ ReportedRows # {}) => ret.value = CheckpointRowOfReport.ts

C32_SameCheckpointRowWhenDated ==
    (CalledCheckpoint /\ ReportedRows # {} /\ IsDate(logs[Last(ReportedRows)].ts)) =>
        ret.value = CheckpointRowOfReport.ts

\* two REPORTED rows, the later one without a Date: the period starts at the
\* first, the report after the second
C32_Witness ==
    /\ CalledCheckpoint
    /\ Len(logs) = 3 /\ ReportedRows = {1, 2} /\ DatedReportedRows = {1}
    /\ logs[3].action = "IN"
    /\ ret.value = logs[1].ts
    /\ CheckpointRowOfReport = logs[2]

====
